---------------------------- MODULE Spec2Model ----------------------------
(***************************************************************************)
(* Model of the profit backtest (src/src/lucro.py), of the K-fold          *)
(* cross-validation and the polynomial degree search (src/src/models.py),  *)
(* of the feature table (src/src/features.py), of the comparison of the    *)
(* models (src/src/analise_lucro.py) and of the loop over the assets       *)
(* (src/src/main.py) of crypto-predictor.                                  *)
(* Each entry point has a specification of its own over the same           *)
(* variables; the variables of the other entry points stay idle.           *)
(*                                                                         *)
(* Numbers.  The program computes with IEEE doubles.  A number is modelled *)
(* as an exact rational [t |-> "fin", n, d] in lowest terms (d > 0), or as *)
(* one of the three special values +inf, -inf, nan that numpy's float64    *)
(* arithmetic produces on a division by zero.  Rounding is not modelled.   *)
(***************************************************************************)
EXTENDS Integers, Sequences, FiniteSets, TLC

VARIABLES
    modo,                 \* which entry point this run calls
    precos_reais,         \* argument precos_reais (a sequence of numbers)
    previsoes_modelo,     \* argument previsoes_modelo of the running call
    tipo,                 \* container of the inputs: "list" or "ndarray"
    investimento_inicial, \* argument investimento_inicial
    pc,                   \* position inside the running function
    dia,                  \* loop variable of calcular_lucro_investimento
    dinheiro_atual,       \* local dinheiro_atual
    historico_dinheiro,   \* local historico_dinheiro
    retorno,              \* value returned by calcular_lucro_investimento
    excecao,              \* exception propagating to the caller ("" = none)
    previsoes_modelo1,    \* comparar_lucro_entre_modelos: argument
    previsoes_modelo2,    \* comparar_lucro_entre_modelos: argument
    chamada,              \* which of its two simulator calls is running
    retorno1,             \* (dinheiro1, lucro1, historico1)
    resultados,           \* value returned by comparar_lucro_entre_modelos
    lucro_buy_hold,       \* value returned by calcular_estrategia_buy_and_hold
    dados_y,              \* validacao_cruzada_kfold: argument dados_y
    numero_folds,         \* validacao_cruzada_kfold: argument numero_folds
    modelo_tipo,          \* validacao_cruzada_kfold: argument modelo_tipo
    embaralhado,          \* the indices as shuffled by KFold's random_state=42
    numero_fold,          \* folds completed so far (the enumerate counter)
    lista_erros,          \* local lista_erros
    modelos_fold,         \* per fold: the class of the model that was fitted
    previsoes_fold,       \* per fold: the predictions on the held-out rows
    particoes_fold,       \* per fold: the rows of each partition and the rows
                          \* the scaler and the polynomial transform were fitted on
    retorno_cv,           \* value returned by validacao_cruzada_kfold
    X_treino,             \* one fold: a column of the training rows
    X_teste,              \* one fold: the same column of the held-out rows
    escalador,            \* one fold: mean_ and scale_ of the fitted scaler
    X_treino_escalado,    \* one fold: local X_treino_escalado
    X_teste_escalado,     \* one fold: local X_teste_escalado
    cond_number,          \* one fold: local cond_number
    modelo,               \* one fold: the class of the local modelo
    cv_resultado,         \* degree search: what validacao_cruzada_kfold(dados_X,
                          \* dados_y, 3, "poly") evaluates to for the data given
    grau,                 \* degree search: loop variable grau
    melhor_grau,          \* degree search: local melhor_grau
    menor_erro,           \* local menor_erro of the degree search and of
                          \* comparar_todos_modelos
    melhor_modelo,        \* degree search: local melhor_modelo
    melhor_transformador, \* degree search: local melhor_transformador
    tentativas,           \* degree search: per degree tried, what happened
    retorno_grau,         \* value returned by encontrar_melhor_grau_polinomial
    ativo,                \* main: position of the loop in the list of assets
    tentados,             \* main: the assets whose pipeline was started, in order
    dfs,                  \* main: local dfs (its keys)
    all_profits_model,    \* main: local all_profits_model
    all_profits_buyhold,  \* main: local all_profits_buyhold
    numero_falhas,        \* main: how many times the except clause ran
    ultimo_resultado,     \* main: how the last pipeline ended
    args_model,           \* main: args.model
    args_kfolds,          \* main: args.kfolds
    dataframe_crypto,     \* criar_features_basicas_completas: its argument
    df_resultado,         \* criar_features_basicas_completas: value returned
    resultados_modelos,   \* comparar_todos_modelos: the items of its argument
    itens_vistos,         \* comparar_todos_modelos: items the loop has taken
    melhor_correlacao,    \* comparar_todos_modelos: local melhor_correlacao
    modelo_melhor_correlacao, \* comparar_todos_modelos: local of that name
    modelo_menor_erro,    \* comparar_todos_modelos: local modelo_menor_erro
    impresso              \* comparar_todos_modelos: the two lines it prints last

entradaVars == <<modo, precos_reais, tipo, investimento_inicial,
                 previsoes_modelo1, previsoes_modelo2>>

simVars == <<previsoes_modelo, dia, dinheiro_atual, historico_dinheiro, retorno>>

cmpVars == <<chamada, retorno1, resultados>>

lucroVars == <<entradaVars, simVars, cmpVars, lucro_buy_hold>>

cvEntradaVars == <<dados_y, numero_folds, modelo_tipo, embaralhado>>

cvVars == <<cvEntradaVars, numero_fold, lista_erros, modelos_fold,
            previsoes_fold, particoes_fold, retorno_cv>>

foldEntradaVars == <<X_treino, X_teste>>

foldVars == <<foldEntradaVars, escalador, X_treino_escalado, X_teste_escalado,
              cond_number, modelo>>

\* the variables of the entry points modelled after the backtest and the
\* cross-validation loop
grauVars == <<cv_resultado, grau, melhor_grau, menor_erro, melhor_modelo,
              melhor_transformador, tentativas, retorno_grau>>

mainEntradaVars == <<args_model, args_kfolds>>

mainVars == <<mainEntradaVars, ativo, tentados, dfs, all_profits_model,
              all_profits_buyhold, numero_falhas, ultimo_resultado>>

featVars == <<dataframe_crypto, df_resultado>>

todosVars == <<resultados_modelos, itens_vistos, melhor_correlacao,
               modelo_melhor_correlacao, modelo_menor_erro, impresso>>

restoVars == <<foldVars, grauVars, mainVars, featVars, todosVars>>

vars == <<lucroVars, cvVars, restoVars, pc, excecao>>

(***************************************************************************)
(* Bounds of the model.                                                    *)
(***************************************************************************)
MaxLen == 3

\* values a price or a prediction takes in the model (0 is the degenerate
\* price the division-by-zero paths are about)
PriceVals == {0, 1, 2}

\* initial capitals tried: the default of lucro.py and another positive one
InvestimentoDefault == 1000

Capitais == {InvestimentoDefault, 3}

Tipos == {"list", "ndarray"}

SeqsUpTo(S, m) == UNION {[1..l -> S] : l \in 0..m}

(***************************************************************************)
(* Floating-point values and their arithmetic.                             *)
(***************************************************************************)
Abs(x) == IF x < 0 THEN -x ELSE x

RECURSIVE Gcd(_, _)
Gcd(a, b) == IF b = 0 THEN a ELSE Gcd(b, a % b)

\* the rational n/d (d # 0) in lowest terms with a positive denominator
Rat(n, d) ==
    LET s == IF d < 0 THEN -1 ELSE 1
        g == Gcd(Abs(n), Abs(d))
    IN  [t |-> "fin", n |-> (s * n) \div g, d |-> (s * d) \div g]

Num(i) == Rat(i, 1)

PInf == [t |-> "pinf", n |-> 0, d |-> 1]

NInf == [t |-> "ninf", n |-> 0, d |-> 1]

NaN == [t |-> "nan", n |-> 0, d |-> 1]

IsFinite(a) == a.t = "fin"

IsZero(a) == a.t = "fin" /\ a.n = 0

\* -1, 0, 1 (nan has no sign; callers test for nan first)
Sign(a) ==
    CASE a.t = "pinf" -> 1
      [] a.t = "ninf" -> -1
      [] a.t = "nan"  -> 0
      [] OTHER        -> IF a.n > 0 THEN 1 ELSE IF a.n < 0 THEN -1 ELSE 0

InfOfSign(s) == IF s > 0 THEN PInf ELSE IF s < 0 THEN NInf ELSE NaN

\* a * b
FMul(a, b) ==
    IF a.t = "nan" \/ b.t = "nan" THEN NaN
    ELSE IF IsFinite(a) /\ IsFinite(b) THEN Rat(a.n * b.n, a.d * b.d)
    ELSE InfOfSign(Sign(a) * Sign(b))

\* a - b
FSub(a, b) ==
    IF a.t = "nan" \/ b.t = "nan" THEN NaN
    ELSE IF IsFinite(a) /\ IsFinite(b) THEN Rat(a.n * b.d - b.n * a.d, a.d * b.d)
    ELSE IF IsFinite(b) THEN a
    ELSE IF IsFinite(a) THEN InfOfSign(-Sign(b))
    ELSE IF a.t = b.t THEN NaN ELSE a

\* a + b
FAdd(a, b) ==
    IF a.t = "nan" \/ b.t = "nan" THEN NaN
    ELSE IF IsFinite(a) /\ IsFinite(b) THEN Rat(a.n * b.d + b.n * a.d, a.d * b.d)
    ELSE IF IsFinite(b) THEN a
    ELSE IF IsFinite(a) THEN b
    ELSE IF a.t = b.t THEN a ELSE NaN

\* a / b where it does not raise: the quotient, and for numpy float64
\* operands with a zero divisor inf or nan (numpy warns, it does not raise)
FDiv(a, b) ==
    IF a.t = "nan" \/ b.t = "nan" THEN NaN
    ELSE IF IsZero(b) THEN InfOfSign(Sign(a))
    ELSE IF IsFinite(a) /\ IsFinite(b) THEN Rat(a.n * b.d, a.d * b.n)
    ELSE IF IsFinite(a) THEN Num(0)
    ELSE IF IsFinite(b) THEN InfOfSign(Sign(a) * Sign(b))
    ELSE NaN

\* a / b raises ZeroDivisionError: the operands are Python floats (elements
\* of a list, or of a Series converted by tolist()) and the divisor is zero
DivRaises(a, b, container) == container = "list" /\ IsZero(b)

\* a > b (False as soon as one side is nan)
FGt(a, b) ==
    IF a.t = "nan" \/ b.t = "nan" THEN FALSE
    ELSE IF IsFinite(a) /\ IsFinite(b) THEN a.n * b.d > b.n * a.d
    ELSE IF a.t = b.t THEN FALSE
    ELSE a.t = "pinf" \/ b.t = "ninf"

\* Python's None in the place of a number
Nenhum == [t |-> "none", n |-> 0, d |-> 1]

(***************************************************************************)
(* calcular_lucro_investimento (lucro.py 5-71).                            *)
(***************************************************************************)
\* a result tuple (dinheiro_final, lucro_total, historico_dinheiro);
\* nulo: the three components are None
Tupla(final, lucro, historico, nulo) ==
    [dinheiro_final |-> final, lucro_total |-> lucro,
     historico |-> historico, nulo |-> nulo]

TuplaNone == Tupla(Nenhum, Nenhum, <<>>, TRUE)

\* line 31: the sizes are compatible
TamanhosCompativeis(precos, previsoes) == Len(precos) = Len(previsoes)

\* mutant of NumeroDias: the loop stops one day early
NumeroDias_curto(precos) == Len(precos) - 2

\* line 40: the days simulated, range(len(precos_reais) - 1)
NumeroDias(precos) == Len(precos) - 1

\* mutant of Investe: invests on a prediction equal to today's price too
Investe_ge(previsao_amanha, preco_hoje) == ~FGt(preco_hoje, previsao_amanha)

\* line 46: the decision of one day
Investe(previsao_amanha, preco_hoje) == FGt(previsao_amanha, preco_hoje)

\* mutant of DinheiroInvestido: the coins are sold at the price they were
\* bought at
DinheiroInvestido_ao_preco_de_hoje(dinheiro, preco_hoje, preco_amanha_real) ==
    FMul(FDiv(dinheiro, preco_hoje), preco_hoje)

\* lines 48-49: the money after an invested day
DinheiroInvestido(dinheiro, preco_hoje, preco_amanha_real) ==
    FMul(FDiv(dinheiro, preco_hoje), preco_amanha_real)

\* mutant of LucroTotal: the final money is reported as the profit
LucroTotal_bruto(dinheiro_final, inicial) == dinheiro_final

\* line 63
LucroTotal(dinheiro_final, inicial) == FSub(dinheiro_final, inicial)

\* mutant of HistoricoInicial: the list of the previous call is used again
HistoricoInicial_herdado(capital) ==
    IF chamada = 2 THEN retorno1.historico ELSE <<Num(capital)>>

\* line 37: historico_dinheiro = [dinheiro_atual], a new list in every call
HistoricoInicial(capital) == <<Num(capital)>>

\* lines 22-37: the size check, then the initialisation of the loop
SimVerifica ==
    /\ pc = "sim_inicio"
    /\ IF ~TamanhosCompativeis(precos_reais, previsoes_modelo)
       THEN /\ retorno' = TuplaNone
            /\ pc' = "sim_retornou"
            /\ UNCHANGED <<dia, dinheiro_atual, historico_dinheiro>>
       ELSE /\ dinheiro_atual' = Num(investimento_inicial)
            /\ historico_dinheiro' = HistoricoInicial(investimento_inicial)
            /\ dia' = 0
            /\ pc' = "sim_loop"
            /\ UNCHANGED retorno
    /\ UNCHANGED <<restoVars, entradaVars, cmpVars, previsoes_modelo, excecao, lucro_buy_hold,
                   cvVars>>

\* lines 40-59: one iteration of the loop over the days
SimDia ==
    /\ pc = "sim_loop"
    /\ dia < NumeroDias(precos_reais)
    /\ LET preco_hoje == Num(precos_reais[dia + 1])
           preco_amanha_real == Num(precos_reais[dia + 2])
           previsao_amanha == Num(previsoes_modelo[dia + 2])
       IN  IF Investe(previsao_amanha, preco_hoje)
           THEN IF DivRaises(dinheiro_atual, preco_hoje, tipo)
                THEN /\ excecao' = "ZeroDivisionError"
                     /\ pc' = "excecao"
                     /\ UNCHANGED <<dia, dinheiro_atual, historico_dinheiro>>
                ELSE LET dinheiro_amanha ==
                             DinheiroInvestido(dinheiro_atual, preco_hoje,
                                               preco_amanha_real)
                     IN  /\ dinheiro_atual' = dinheiro_amanha
                         /\ historico_dinheiro' =
                                Append(historico_dinheiro, dinheiro_amanha)
                         /\ dia' = dia + 1
                         /\ UNCHANGED <<pc, excecao>>
           ELSE /\ dinheiro_atual' = dinheiro_atual
                /\ historico_dinheiro' =
                       Append(historico_dinheiro, dinheiro_atual)
                /\ dia' = dia + 1
                /\ UNCHANGED <<pc, excecao>>
    /\ UNCHANGED <<restoVars, entradaVars, cmpVars, previsoes_modelo, retorno, lucro_buy_hold,
                   cvVars>>

\* lines 61-71: the loop is over; the final figures and the return
SimFim ==
    /\ pc = "sim_loop"
    /\ dia >= NumeroDias(precos_reais)
    /\ LET dinheiro_final == dinheiro_atual
           lucro_total == LucroTotal(dinheiro_final, Num(investimento_inicial))
       IN  IF DivRaises(lucro_total, Num(investimento_inicial), "list")
           THEN /\ excecao' = "ZeroDivisionError"
                /\ pc' = "excecao"
                /\ UNCHANGED retorno
           ELSE /\ retorno' = Tupla(dinheiro_final, lucro_total,
                                    historico_dinheiro, FALSE)
                /\ pc' = "sim_retornou"
                /\ UNCHANGED excecao
    /\ UNCHANGED <<restoVars, entradaVars, cmpVars, previsoes_modelo, dia, dinheiro_atual,
                   historico_dinheiro, lucro_buy_hold, cvVars>>

(***************************************************************************)
(* calcular_estrategia_buy_and_hold (lucro.py 124-153).                    *)
(***************************************************************************)
\* mutant of LucroBuyHold: buys at the last price and sells at the first
LucroBuyHold_trocado(inicial, preco_inicial, preco_final) ==
    FSub(FMul(FDiv(inicial, preco_final), preco_inicial), inicial)

\* lines 140-146: coins bought on the first day, their final value, the profit
LucroBuyHold(inicial, preco_inicial, preco_final) ==
    FSub(FMul(FDiv(inicial, preco_inicial), preco_final), inicial)

\* lines 136-153, the whole call
BuyAndHold ==
    /\ pc = "bh_inicio"
    /\ IF precos_reais = <<>>
       THEN \* line 136: precos_reais[0] of an empty sequence
            /\ excecao' = "IndexError"
            /\ pc' = "excecao"
            /\ UNCHANGED lucro_buy_hold
       ELSE LET preco_inicial == Num(precos_reais[1])
                preco_final == Num(precos_reais[Len(precos_reais)])
                inicial == Num(investimento_inicial)
            IN  IF DivRaises(inicial, preco_inicial, tipo)
                THEN /\ excecao' = "ZeroDivisionError"
                     /\ pc' = "excecao"
                     /\ UNCHANGED lucro_buy_hold
                ELSE /\ lucro_buy_hold' =
                            LucroBuyHold(inicial, preco_inicial, preco_final)
                     /\ pc' = "bh_retornou"
                     /\ UNCHANGED excecao
    /\ UNCHANGED <<restoVars, entradaVars, simVars, cmpVars, cvVars>>

\* main.py 389-392: the evaluation of an asset calls the simulator and then
\* buy-and-hold on the same prices
SegueParaBuyAndHold ==
    /\ modo = "avaliar"
    /\ pc = "sim_retornou"
    /\ pc' = "bh_inicio"
    /\ UNCHANGED <<lucroVars, cvVars, restoVars, excecao>>

(***************************************************************************)
(* comparar_lucro_entre_modelos (lucro.py 74-121).  Its two calls of the   *)
(* simulator run the actions above; the model names are 1 and 2.           *)
(***************************************************************************)
\* mutant of Modelo1Vence: model 1 wins a tie
Modelo1Vence_ge(lucro1, lucro2) == ~FGt(lucro2, lucro1)

\* line 102: lucro1 > lucro2
Modelo1Vence(lucro1, lucro2) == FGt(lucro1, lucro2)

\* lines 104 and 107: the reported difference, given the winner
Diferenca(vencedor, lucro1, lucro2) ==
    IF vencedor = 1 THEN FSub(lucro1, lucro2) ELSE FSub(lucro2, lucro1)

\* lines 92-98: the first call has returned; the second one starts, with
\* locals of its own
CompararSegundaChamada ==
    /\ modo = "comparar"
    /\ chamada = 1
    /\ pc = "sim_retornou"
    /\ retorno1' = retorno
    /\ chamada' = 2
    /\ previsoes_modelo' = previsoes_modelo2
    /\ dia' = 0
    /\ dinheiro_atual' = Nenhum
    /\ historico_dinheiro' = <<>>
    /\ retorno' = TuplaNone
    /\ pc' = "sim_inicio"
    /\ UNCHANGED <<restoVars, entradaVars, resultados, excecao, lucro_buy_hold, cvVars>>

\* lines 101-121: both calls have returned; None > None (or None against a
\* number) is a TypeError
CompararDecide ==
    /\ modo = "comparar"
    /\ chamada = 2
    /\ pc = "sim_retornou"
    /\ LET lucro1 == retorno1.lucro_total
           lucro2 == retorno.lucro_total
       IN  IF retorno1.nulo \/ retorno.nulo
           THEN /\ excecao' = "TypeError"
                /\ pc' = "excecao"
                /\ UNCHANGED resultados
           ELSE LET melhor == IF Modelo1Vence(lucro1, lucro2) THEN 1 ELSE 2
                IN  /\ resultados' =
                           [melhor_modelo |-> melhor,
                            diferenca_lucro |-> Diferenca(melhor, lucro1, lucro2)]
                    /\ pc' = "cmp_retornou"
                    /\ UNCHANGED excecao
    /\ UNCHANGED <<restoVars, entradaVars, simVars, chamada, retorno1, lucro_buy_hold, cvVars>>

(***************************************************************************)
(* validacao_cruzada_kfold (models.py 44-140).  The regression library is  *)
(* a black box: a fitted model predicts some finite number for every       *)
(* held-out row.  The features take no part in what is modelled here.      *)
(***************************************************************************)
\* values of the targets and of the predictions of a fitted model
YVals == {0, 1}

PredVals == {0, 2}

\* resolution of the modelled square root: np.sqrt(q) is the largest
\* multiple of 1/SqrtRes that does not exceed the real square root
SqrtRes == 10

\* np.sqrt
Raiz(q) ==
    IF q.t \in {"nan", "ninf"} THEN NaN
    ELSE IF q.t = "pinf" THEN PInf
    ELSE IF q.n < 0 THEN NaN
    ELSE LET cands == 0..(SqrtRes * (q.n \div q.d + 1))
             m == CHOOSE m \in cands :
                     /\ m * m * q.d <= q.n * SqrtRes * SqrtRes
                     /\ (m + 1) * (m + 1) * q.d > q.n * SqrtRes * SqrtRes
         IN  Rat(m, SqrtRes)

RECURSIVE Soma(_)
\* the sum of a sequence of numbers
Soma(s) == IF s = <<>> THEN Num(0) ELSE FAdd(Soma(SubSeq(s, 1, Len(s) - 1)), s[Len(s)])

\* mutant of Media: the mean is taken before the last fold's error counts
Media_sem_ultimo(lista) ==
    IF Len(lista) <= 1 THEN NaN
    ELSE FDiv(Soma(SubSeq(lista, 1, Len(lista) - 1)), Num(Len(lista) - 1))

\* line 135: np.mean (nan, with a warning, for an empty list)
Media(lista) ==
    IF lista = <<>> THEN NaN ELSE FDiv(Soma(lista), Num(Len(lista)))

\* mutant of TamanhoFold: the remainder of n / k is dropped
TamanhoFold_sem_resto(n, k, i) == n \div k

\* KFold: fold i of k (i in 1..k) holds n // k rows, and one more if it is
\* among the first n % k folds
TamanhoFold(n, k, i) == n \div k + (IF i <= n % k THEN 1 ELSE 0)

RECURSIVE InicioFold(_, _, _)
\* KFold: how many shuffled indices come before fold i
InicioFold(n, k, i) ==
    IF i <= 1 THEN 0 ELSE InicioFold(n, k, i - 1) + TamanhoFold(n, k, i - 1)

\* line 67: the held-out indices of fold i, a slice of the shuffled indices
IndicesTeste(emb, n, k, i) ==
    {emb[j] : j \in (InicioFold(n, k, i) + 1)..(InicioFold(n, k, i) + TamanhoFold(n, k, i))}

\* line 67: the training indices of fold i, all the others
IndicesTreino(emb, n, k, i) == (1..n) \ IndicesTeste(emb, n, k, i)

RECURSIVE SomaQuadrados(_, _, _)
\* the sum over the rows S of (y_teste - previsoes)^2
SomaQuadrados(y, previsoes, S) ==
    IF S = {} THEN 0
    ELSE LET i == CHOOSE i \in S : TRUE
         IN  (y[i] - previsoes[i]) * (y[i] - previsoes[i])
                 + SomaQuadrados(y, previsoes, S \ {i})

\* line 129: np.sqrt(mean_squared_error(y_teste, previsoes)), teste non-empty
ErroRMSE(y, previsoes, teste) ==
    Raiz(Rat(SomaQuadrados(y, previsoes, teste), Cardinality(teste)))

\* what np.linalg.cond may give for the scaled training matrix
Condicoes == {"ate_1e12", "acima_1e12", "nan", "excecao"}

\* lines 90-123: the class of the model fitted in a fold
ModeloDoFold(tipo_modelo, cond) ==
    CASE tipo_modelo = "linear" ->
             IF cond \in {"acima_1e12", "excecao"} THEN "Ridge"
                                                   ELSE "LinearRegression"
      [] tipo_modelo = "mlp"  -> "MLPRegressor"
      [] tipo_modelo = "poly" -> "PolynomialFeatures2+LinearRegression"
      [] OTHER                -> "LinearRegression"

\* mutant of FoldsDemais: one fold more than there are samples is let through
FoldsDemais_mais_um(k, n) == k > n + 1

\* line 67: the check of kfold.split, more folds than samples
FoldsDemais(k, n) == k > n

\* mutant of LinhasDeAjuste: the statistics are computed on all the rows
LinhasDeAjuste_todas(treino, teste) == treino \cup teste

\* lines 69 and 76 (and 112 in poly mode): the rows a fold's scaler (and
\* polynomial transform) is fitted on, X_treino = dados_X[indices_treino]
LinhasDeAjuste(treino, teste) == treino

\* lines 67-87 and 111-113: what a fold does with its two partitions.  The
\* scaler is a new StandardScaler, fitted by fit_transform on the training
\* rows and applied by transform to the held-out rows; in poly mode the same
\* holds of the new PolynomialFeatures
Particao(tipo_modelo, treino, teste) ==
    [treino |-> treino, teste |-> teste,
     escalador_ajustado_em |-> LinhasDeAjuste(treino, teste),
     escalador_aplicado_a |-> treino \cup teste,
     poly_ajustado_em |-> IF tipo_modelo = "poly"
                            THEN LinhasDeAjuste(treino, teste) ELSE {},
     poly_aplicado_a |-> IF tipo_modelo = "poly" THEN treino \cup teste ELSE {}]

\* lines 59-64: KFold(n_splits=numero_folds, ...) rejects n_splits below 2
KFoldCria ==
    /\ pc = "cv_inicio"
    /\ IF numero_folds < 2
       THEN /\ excecao' = "ValueError"
            /\ pc' = "excecao"
       ELSE /\ pc' = "cv_split"
            /\ UNCHANGED excecao
    /\ UNCHANGED <<restoVars, lucroVars, cvVars>>

\* line 67: kfold.split(dados_X) rejects more folds than samples, before the
\* first fold is produced
KFoldSplit ==
    /\ pc = "cv_split"
    /\ IF FoldsDemais(numero_folds, Len(dados_y))
       THEN /\ excecao' = "ValueError"
            /\ pc' = "excecao"
       ELSE /\ pc' = "cv_loop"
            /\ UNCHANGED excecao
    /\ UNCHANGED <<restoVars, lucroVars, cvVars>>

\* lines 67-132: one fold.  Scaling an empty partition is a ValueError of
\* the library.
KFoldFold ==
    /\ pc = "cv_loop"
    /\ numero_fold < numero_folds
    /\ LET n == Len(dados_y)
           teste == IndicesTeste(embaralhado, n, numero_folds, numero_fold + 1)
           treino == IndicesTreino(embaralhado, n, numero_folds, numero_fold + 1)
       IN  IF treino = {} \/ teste = {}
           THEN /\ excecao' = "ValueError"
                /\ pc' = "excecao"
                /\ UNCHANGED <<numero_fold, lista_erros, modelos_fold,
                               previsoes_fold, particoes_fold>>
           ELSE \E cond \in Condicoes, previsoes \in [teste -> PredVals] :
                    /\ particoes_fold' =
                           Append(particoes_fold, Particao(modelo_tipo, treino, teste))
                    /\ modelos_fold' =
                           Append(modelos_fold, ModeloDoFold(modelo_tipo, cond))
                    /\ previsoes_fold' = Append(previsoes_fold, previsoes)
                    /\ lista_erros' =
                           Append(lista_erros, ErroRMSE(dados_y, previsoes, teste))
                    /\ numero_fold' = numero_fold + 1
                    /\ UNCHANGED <<pc, excecao>>
    /\ UNCHANGED <<restoVars, lucroVars, cvEntradaVars, retorno_cv>>

\* lines 134-140: the loop is over; the mean and the return (the standard
\* deviation of line 136 is only printed)
KFoldFim ==
    /\ pc = "cv_loop"
    /\ numero_fold >= numero_folds
    /\ retorno_cv' = [lista_erros |-> lista_erros, erro_medio |-> Media(lista_erros)]
    /\ pc' = "cv_retornou"
    /\ UNCHANGED <<restoVars, lucroVars, cvEntradaVars, numero_fold, lista_erros,
                   modelos_fold, previsoes_fold, particoes_fold, excecao>>

\* the state before any call
(***************************************************************************)
(* The body of one fold before the fit (models.py 74-123): the scaler, the *)
(* guard on the scaled values and the choice of the model, on one column   *)
(* of the two partitions.                                                  *)
(***************************************************************************)
\* values a feature takes in the model: ordinary ones, an outlier, a missing
\* value and the infinities a pct_change over a zero price produces
XVals == {Num(0), Num(1), Num(100), NaN, PInf, NInf}

MaxTreino == 2

MaxTeste == 1

\* line 81: nan_to_num(..., posinf=10, neginf=-10)
PosInfSubstituto == 10

\* lines 86-87: np.clip(..., -50, 50)
LimiteClip == 50

\* line 94: cond_number > 1e12, the exponent of the threshold
ExpoenteLimite == 12

TemInfinito(coluna) == \E i \in 1..Len(coluna) : coluna[i].t \in {"pinf", "ninf"}

TemNaNOuInfinito(coluna) == \E i \in 1..Len(coluna) : ~IsFinite(coluna[i])

SemNaN(coluna) == SelectSeq(coluna, LAMBDA v : v.t # "nan")

\* StandardScaler.fit: mean_, the mean of the column over the rows that are
\* not NaN (nan when there is none)
MediaColuna(coluna) == Media(SemNaN(coluna))

\* StandardScaler.fit: var_, the population variance over the same rows
Variancia(coluna) ==
    LET v == SemNaN(coluna)
        m == Media(v)
    IN  Media([i \in 1..Len(v) |-> FMul(FSub(v[i], m), FSub(v[i], m))])

\* StandardScaler.fit: scale_ = sqrt(var_), a zero scale being replaced by 1
EscalaColuna(coluna) ==
    LET e == Raiz(Variancia(coluna))
    IN  IF IsZero(e) THEN Num(1) ELSE e

\* line 76: the statistics scaler.fit_transform(X_treino) computes
AjustaEscalador(coluna) ==
    [media |-> MediaColuna(coluna), escala |-> EscalaColuna(coluna)]

\* lines 76-77: scaler.transform, (x - mean_) / scale_
Transforma(esc, coluna) ==
    [i \in 1..Len(coluna) |-> FDiv(FSub(coluna[i], esc.media), esc.escala)]

\* lines 81 and 83: np.nan_to_num(x, nan=0, posinf=10, neginf=-10)
NanToNum(v) ==
    CASE v.t = "nan"  -> Num(0)
      [] v.t = "pinf" -> Num(PosInfSubstituto)
      [] v.t = "ninf" -> Num(-PosInfSubstituto)
      [] OTHER        -> v

\* lines 86-87: np.clip(x, -50, 50) (nan stays nan)
Clip(v) ==
    IF FGt(v, Num(LimiteClip)) THEN Num(LimiteClip)
    ELSE IF FGt(Num(-LimiteClip), v) THEN Num(-LimiteClip)
    ELSE v

\* lines 80-87: the guard on a scaled column
Guarda(coluna) ==
    LET limpa == IF TemNaNOuInfinito(coluna)
                 THEN [i \in 1..Len(coluna) |-> NanToNum(coluna[i])]
                 ELSE coluna
    IN  [i \in 1..Len(limpa) |-> Clip(limpa[i])]

\* a condition number m * 10^e, or what np.linalg.cond gives in its place
Cond(m, e) == [t |-> "fin", m |-> m, e |-> e]

CondInf == [t |-> "inf", m |-> 0, e |-> 0]

CondNaN == [t |-> "nan", m |-> 0, e |-> 0]

\* np.linalg.cond raised
CondFalhou == [t |-> "excecao", m |-> 0, e |-> 0]

\* np.linalg.cond was not called
CondNenhum == [t |-> "none", m |-> 0, e |-> 0]

\* outcomes of np.linalg.cond(X_treino_escalado) tried: well conditioned,
\* exactly 1e12, just above, far above, infinite, nan, and an exception
CondVals == {Cond(1, 0), Cond(1, ExpoenteLimite), Cond(2, ExpoenteLimite),
             Cond(1, ExpoenteLimite + 1), CondInf, CondNaN, CondFalhou}

\* mutant of CondCategoria: the threshold itself counts as ill-conditioned
CondCategoria_ge(c) ==
    CASE c.t = "excecao" -> "excecao"
      [] c.t = "nan"     -> "nan"
      [] c.t = "inf"     -> "acima_1e12"
      [] OTHER -> IF c.e >= ExpoenteLimite THEN "acima_1e12" ELSE "ate_1e12"

\* lines 93-99: how cond_number > 1e12 and the except clause see the outcome
CondCategoria(c) ==
    CASE c.t = "excecao" -> "excecao"
      [] c.t = "nan"     -> "nan"
      [] c.t = "inf"     -> "acima_1e12"
      [] OTHER -> IF c.e > ExpoenteLimite \/ (c.e = ExpoenteLimite /\ c.m > 1)
                  THEN "acima_1e12" ELSE "ate_1e12"

\* mutant of EntradaAposEscala: the scaled values are written over the input
EntradaAposEscala_no_lugar(entrada, escalada) == escalada

\* lines 76-87: what the rows given to the scaler and to the guard hold
\* afterwards.  fit_transform and transform (copy=True), np.nan_to_num
\* (copy=True) and np.clip (no out=) all return new arrays
EntradaAposEscala(entrada, escalada) == entrada

\* lines 75-87: the scaler and the guard.  StandardScaler validates its input
\* allowing NaN only: an infinite entry makes fit_transform (line 76) or
\* transform (line 77) raise ValueError
EscalaFold ==
    /\ pc = "fold_inicio"
    /\ IF TemInfinito(X_treino) \/ TemInfinito(X_teste)
       THEN /\ pc' = "excecao"
            /\ excecao' = "ValueError"
            /\ escalador' = IF TemInfinito(X_treino)
                            THEN escalador ELSE AjustaEscalador(X_treino)
            /\ UNCHANGED <<X_treino_escalado, X_teste_escalado, foldEntradaVars>>
       ELSE /\ escalador' = AjustaEscalador(X_treino)
            /\ X_treino_escalado' = Guarda(Transforma(escalador', X_treino))
            /\ X_teste_escalado' = Guarda(Transforma(escalador', X_teste))
            /\ X_treino' = EntradaAposEscala(X_treino, X_treino_escalado')
            /\ X_teste' = EntradaAposEscala(X_teste, X_teste_escalado')
            /\ pc' = "fold_escalado"
            /\ UNCHANGED excecao
    /\ UNCHANGED <<lucroVars, cvVars, grauVars, mainVars, featVars, todosVars, cond_number, modelo>>

\* lines 90-123: the model of the fold
EscolheModelo ==
    /\ pc = "fold_escalado"
    /\ IF modelo_tipo = "linear"
       THEN \E c \in CondVals :
                /\ cond_number' = c
                /\ modelo' = ModeloDoFold(modelo_tipo, CondCategoria(c))
       ELSE /\ modelo' = ModeloDoFold(modelo_tipo, "ate_1e12")
            /\ UNCHANGED cond_number
    /\ pc' = "fold_modelo"
    /\ UNCHANGED <<lucroVars, cvVars, grauVars, mainVars, featVars, todosVars, foldEntradaVars, escalador,
                   X_treino_escalado, X_teste_escalado, excecao>>

\* no fold body is run on its own
InitSemFold ==
    /\ X_treino = <<>>
    /\ X_teste = <<>>
    /\ escalador = [media |-> Nenhum, escala |-> Nenhum]
    /\ X_treino_escalado = <<>>
    /\ X_teste_escalado = <<>>
    /\ cond_number = CondNenhum
    /\ modelo = ""

(***************************************************************************)
(* treinar_regressao_polinomial (models.py 143-168) and                    *)
(* encontrar_melhor_grau_polinomial (models.py 171-216).                   *)
(***************************************************************************)
\* line 193: range(2, 11)
GrauMin == 2

GrauMax == 10

\* line 187: melhor_grau = 2
MelhorGrauInicial == 2

\* line 199: numero_folds=3
FoldsDaBusca == 3

\* line 111: PolynomialFeatures(degree=2), the degree of the poly mode of
\* validacao_cruzada_kfold
GrauPolyCV == 2

\* mean errors a cross-validation returns in the model
ErrosCV == {Rat(1, 2), Num(3)}

\* what a call evaluates to: a value, or an exception raised
Valor(v) == [t |-> "valor", erro |-> v, exc |-> ""]

Levanta(e) == [t |-> "excecao", erro |-> Nenhum, exc |-> e]

\* validacao_cruzada_kfold either returns a mean error or raises the
\* ValueError of the library (too few samples, an infinite feature)
ResultadosCV == {Valor(e) : e \in ErrosCV} \cup {Levanta("ValueError")}

\* what treinar_regressao_polinomial raises when it fails at a degree
ExcecoesAjuste == {"ValueError", "MemoryError"}

\* None in the place of a model or of a transform
SemObjeto == [classe |-> "None", grau |-> 0, ajustado_em |-> ""]

\* mutant of TreinarRegressaoPolinomial: the degree asked for is not passed on
TreinarRegressaoPolinomial_padrao(g) ==
    [modelo |-> [classe |-> "LinearRegression", grau |-> GrauPolyCV,
                 ajustado_em |-> "dados_X"],
     transformador |-> [classe |-> "PolynomialFeatures", grau |-> GrauPolyCV,
                        ajustado_em |-> "dados_X"]]

\* lines 158-168: PolynomialFeatures(degree=grau_polinomio) fitted on all of
\* dados_X and a LinearRegression fitted on its output and dados_y
TreinarRegressaoPolinomial(g) ==
    [modelo |-> [classe |-> "LinearRegression", grau |-> g,
                 ajustado_em |-> "dados_X"],
     transformador |-> [classe |-> "PolynomialFeatures", grau |-> g,
                        ajustado_em |-> "dados_X"]]

\* line 199: the arguments of the cross-validation call of a trial, and the
\* degree its poly mode expands to (line 111)
ChamadaCV(g) ==
    [numero_folds |-> FoldsDaBusca, modelo_tipo |-> "poly", grau_poly |-> GrauPolyCV]

\* no cross-validation was called in the trial
SemChamadaCV == [numero_folds |-> 0, modelo_tipo |-> "", grau_poly |-> 0]

\* mutant of Melhora: an equal error replaces the best too
Melhora_ou_iguala(erro_medio, menor) == ~FGt(erro_medio, menor)

\* line 204: erro_medio < menor_erro
Melhora(erro_medio, menor) == FGt(menor, erro_medio)

\* mutant of Capturada: only a ValueError is caught
Capturada_so_value(e) == e = "ValueError"

\* line 210: except Exception (both exceptions of the model derive from it)
Capturada(e) == e \in {"ValueError", "MemoryError"}

\* mutant of ErroMedioCV: the error falls as the degree evaluated rises
ErroMedioCV_grau(g) == FDiv(cv_resultado.erro, Num(g))

\* line 199: erro_medio, the mean the call returns.  Its arguments are
\* dados_X, dados_y, 3 and "poly" at every degree g, the folds are drawn with
\* random_state=42 (line 59) and the fits of lines 109-119 have no random
\* part, so the call evaluates to the same result at every degree
ErroMedioCV(g) == cv_resultado.erro

\* lines 193-212: one iteration of the loop over the degrees
TentaGrau ==
    /\ pc = "grau_loop"
    /\ grau <= GrauMax
    /\ \E ajuste \in {Valor(Nenhum)} \cup {Levanta(e) : e \in ExcecoesAjuste} :
           LET treinado == TreinarRegressaoPolinomial(grau)
               exc == IF ajuste.t = "excecao" THEN ajuste.exc ELSE cv_resultado.exc
               chamada_cv == IF ajuste.t = "excecao" THEN SemChamadaCV ELSE ChamadaCV(grau)
               erro_medio == ErroMedioCV(grau)
               registo == [grau |-> grau, excecao |-> exc, cv |-> chamada_cv,
                           erro_medio |-> IF exc = "" THEN erro_medio ELSE Nenhum]
           IN  IF exc # "" /\ ~Capturada(exc)
               THEN /\ pc' = "excecao"
                    /\ excecao' = exc
                    /\ UNCHANGED <<grau, melhor_grau, menor_erro, melhor_modelo,
                                   melhor_transformador, tentativas>>
               ELSE /\ tentativas' = Append(tentativas, registo)
                    /\ grau' = grau + 1
                    /\ IF exc = "" /\ Melhora(erro_medio, menor_erro)
                       THEN /\ melhor_grau' = grau
                            /\ menor_erro' = erro_medio
                            /\ melhor_modelo' = treinado.modelo
                            /\ melhor_transformador' = treinado.transformador
                       ELSE UNCHANGED <<melhor_grau, menor_erro, melhor_modelo,
                                        melhor_transformador>>
                    /\ UNCHANGED <<pc, excecao>>
    /\ UNCHANGED <<lucroVars, cvVars, foldVars, mainVars, featVars, todosVars, cv_resultado, retorno_grau>>

\* line 216: the return after the last degree
GrauFim ==
    /\ pc = "grau_loop"
    /\ grau > GrauMax
    /\ retorno_grau' = [melhor_grau |-> melhor_grau, menor_erro |-> menor_erro,
                        melhor_modelo |-> melhor_modelo,
                        melhor_transformador |-> melhor_transformador]
    /\ pc' = "grau_retornou"
    /\ UNCHANGED <<lucroVars, cvVars, foldVars, mainVars, featVars, todosVars, cv_resultado, grau, melhor_grau,
                   menor_erro, melhor_modelo, melhor_transformador, tentativas,
                   excecao>>

\* mutant of InicioDaBusca: the best degree starts below the range
InicioDaBusca_grau_zero ==
    /\ grau = GrauMin
    /\ melhor_grau = 0
    /\ menor_erro = PInf
    /\ melhor_modelo = SemObjeto
    /\ melhor_transformador = SemObjeto
    /\ tentativas = <<>>
    /\ retorno_grau = [melhor_grau |-> 0, menor_erro |-> Nenhum,
                       melhor_modelo |-> SemObjeto,
                       melhor_transformador |-> SemObjeto]

\* lines 187-190: the locals before the loop
InicioDaBusca ==
    /\ grau = GrauMin
    /\ melhor_grau = MelhorGrauInicial
    /\ menor_erro = PInf
    /\ melhor_modelo = SemObjeto
    /\ melhor_transformador = SemObjeto
    /\ tentativas = <<>>
    /\ retorno_grau = [melhor_grau |-> 0, menor_erro |-> Nenhum,
                       melhor_modelo |-> SemObjeto,
                       melhor_transformador |-> SemObjeto]

\* no degree search is called in this run
InitSemGrau ==
    /\ cv_resultado = Levanta("")
    /\ InicioDaBusca

(***************************************************************************)
(* main (main.py 276-448): the loop over the assets and the summary.       *)
(***************************************************************************)
\* lines 284-295: the keys of cryptos, in insertion order
Cryptos == <<"ADA", "AKITA", "ALICE", "ALPACA", "ALPINE",
             "BICO", "BTC", "CHR", "COOL", "CORN">>

\* line 334: len(X) < 20
MinAmostras == 20

\* numbers of rows of X tried for an asset, on both sides of the minimum
TamanhosX == {MinAmostras - 1, MinAmostras}

\* line 260: choices=["mlp", "linear", "poly"]
ModelosCLI == {"mlp", "linear", "poly"}

\* the value of --kfolds tried, which is not the default of the parameter
\* numero_folds of validacao_cruzada_kfold
KfoldsVals == {3}

\* models.py line 44: the default of the parameter modelo_tipo
ModeloTipoDefault == "linear"

\* where the pipeline of an asset raises, if it does: in load_crypto_data
\* (line 309), in the statistics, plots and features (lines 313-331), in the
\* hypothesis test, the complete analysis, the split or the scaler (lines
\* 338-363), or in the cross-validation or the backtest (lines 380-392)
PontosDeFalha == {"nenhum", "carga", "analise", "pipeline", "avaliacao"}

\* the exception raised at a point of failure
ExcecaoDoPonto(ponto) ==
    IF ponto = "carga" THEN "FileNotFoundError" ELSE "ValueError"

PoucosDados(tamanho) == tamanho < MinAmostras

\* what the simulator returns to main as profit_model: a number, or None
\* (its answer to sequences of different lengths)
LucrosDoModelo == {"profit_model", "None"}

\* lines 123-133: treinar_modelo_escolhido.  main.py imports train_mlp and
\* train_linear from src.models (line 23) but not
\* treinar_regressao_polinomial, so the poly branch (line 130) raises
\* NameError
TreinarModeloEscolhido(model_type) ==
    CASE model_type = "linear" -> Valor("LinearRegression")
      [] model_type = "mlp"    -> Valor("MLPRegressor")
      [] model_type = "poly"   -> Levanta("NameError")
      [] OTHER                 -> Levanta("ValueError")

\* line 380: validacao_cruzada_kfold(X, y, args.kfolds), the values its
\* parameters numero_folds and modelo_tipo are bound to
ArgumentosCV(model, kfolds) ==
    [numero_folds |-> kfolds, modelo_tipo |-> ModeloTipoDefault]

\* line 114: profit_model > profit_buyhold raises TypeError for None
PrintProfitResults(profit_model) ==
    IF profit_model = "None" THEN Levanta("TypeError") ELSE Valor(Nenhum)

\* mutant of Concluido: the continue of line 336 is not taken
Concluido_sem_minimo(exc, tamanho) == exc = ""

\* lines 334-399: the pipeline reached the appends of lines 398-399
Concluido(exc, tamanho) == exc = "" /\ ~PoucosDados(tamanho)

\* mutant of CapturadaMain: only a ValueError is caught
CapturadaMain_so_value(e) == e = "ValueError"

\* line 403: except Exception
CapturadaMain(e) == e \in {"FileNotFoundError", "ValueError", "NameError", "TypeError"}

\* lines 305-405: one iteration of the loop, the whole pipeline of an asset
ProcessaAtivo ==
    /\ pc = "main_loop"
    /\ ativo <= Len(Cryptos)
    /\ \E ponto \in PontosDeFalha, tamanho \in TamanhosX,
          profit_model \in LucrosDoModelo :
           LET crypto == Cryptos[ativo]
               treino == TreinarModeloEscolhido(args_model)
               impressao == PrintProfitResults(profit_model)
               \* the statements in their order; the first that raises
               \* ends the pipeline
               exc == IF ponto \in {"carga", "analise"} THEN ExcecaoDoPonto(ponto)
                      ELSE IF PoucosDados(tamanho) THEN ""
                      ELSE IF ponto = "pipeline" THEN ExcecaoDoPonto(ponto)
                      ELSE IF treino.t = "excecao" THEN treino.exc
                      ELSE IF ponto = "avaliacao" THEN ExcecaoDoPonto(ponto)
                      ELSE impressao.exc
               \* line 380 was reached
               cv_chamada == /\ ponto \in {"nenhum", "avaliacao"}
                             /\ ~PoucosDados(tamanho)
                             /\ treino.t = "valor"
               resultado == IF exc # "" THEN exc
                            ELSE IF PoucosDados(tamanho) THEN "poucos_dados"
                            ELSE "ok"
           IN  /\ tentados' = Append(tentados, crypto)
               /\ dfs' = IF ponto = "carga" THEN dfs ELSE dfs \cup {crypto}
               /\ IF cv_chamada
                  THEN /\ numero_folds' = ArgumentosCV(args_model, args_kfolds).numero_folds
                       /\ modelo_tipo' = ArgumentosCV(args_model, args_kfolds).modelo_tipo
                  ELSE UNCHANGED <<numero_folds, modelo_tipo>>
               /\ IF exc # "" /\ ~CapturadaMain(exc)
                  THEN /\ pc' = "excecao"
                       /\ excecao' = exc
                       /\ UNCHANGED <<ativo, all_profits_model, all_profits_buyhold,
                                      numero_falhas, ultimo_resultado>>
                  ELSE /\ ativo' = ativo + 1
                       /\ ultimo_resultado' = resultado
                       /\ numero_falhas' = IF exc # "" THEN numero_falhas + 1
                                           ELSE numero_falhas
                       /\ IF Concluido(exc, tamanho)
                          THEN /\ all_profits_model' =
                                      Append(all_profits_model, profit_model)
                               /\ all_profits_buyhold' =
                                      Append(all_profits_buyhold, "profit_buyhold")
                          ELSE UNCHANGED <<all_profits_model, all_profits_buyhold>>
                       /\ UNCHANGED <<pc, excecao>>
    /\ UNCHANGED <<lucroVars, foldVars, grauVars, featVars, todosVars, mainEntradaVars, dados_y,
                   embaralhado, numero_fold, lista_erros, modelos_fold,
                   previsoes_fold, particoes_fold, retorno_cv>>

\* lines 407-408: the loop is over and the summary stage starts
MainResumo ==
    /\ pc = "main_loop"
    /\ ativo > Len(Cryptos)
    /\ pc' = "main_resumo"
    /\ UNCHANGED <<lucroVars, cvVars, restoVars, excecao>>

\* lines 297-301: the locals before the loop
InicioDoMain ==
    /\ ativo = 1
    /\ tentados = <<>>
    /\ dfs = {}
    /\ all_profits_model = <<>>
    /\ all_profits_buyhold = <<>>
    /\ numero_falhas = 0
    /\ ultimo_resultado = ""

\* main is not run
InitSemMain ==
    /\ args_model = ""
    /\ args_kfolds = 0
    /\ InicioDoMain

(***************************************************************************)
(* criar_features_basicas_completas and its helpers (features.py 27-127).  *)
(* A table is a record: the names of its columns and, per column that      *)
(* matters here, the sequence of its values.                               *)
(***************************************************************************)
MaxLinhasDf == 7

\* lines 114 and 117: the window of the rolling mean and deviation
JanelaDias == 7

\* line 92: pct_change() * 100
Percentual == 100

\* values of the column close
CloseVals == {0, 1, 2}

\* the columns of the table given, those load_crypto_data produces that
\* matter here
ColunasDeEntrada == {"date", "close"}

\* the rows i-j+1 .. i of a column
JanelaEm(coluna, j, i) == SubSeq(coluna, i - j + 1, i)

\* lines 45: rolling(window=j).mean(), NaN until the window is full
MediaMovel(coluna, j) ==
    [i \in 1..Len(coluna) |->
        IF i < j THEN NaN ELSE Media(JanelaEm(coluna, j, i))]

\* line 69: rolling(window=j).std(), the sample deviation (ddof=1), NaN
\* until the window is full
Volatilidade(coluna, j) ==
    [i \in 1..Len(coluna) |->
        IF i < j \/ j < 2 THEN NaN
        ELSE LET w == JanelaEm(coluna, j, i)
                 m == Media(w)
                 quadrados == [k \in 1..j |-> FMul(FSub(w[k], m), FSub(w[k], m))]
             IN  Raiz(FDiv(Soma(quadrados), Num(j - 1)))]

\* line 92: pct_change() * 100, NaN in the first row; a previous price of 0
\* gives inf, or nan for 0 / 0
Retorno(coluna) ==
    [i \in 1..Len(coluna) |->
        IF i = 1 THEN NaN
        ELSE FMul(FSub(FDiv(coluna[i], coluna[i - 1]), Num(1)), Num(Percentual))]

\* mutant of Subiu: a return of zero counts as a rise
Subiu_ou_igual(r) == IF FGt(r, Num(0)) \/ IsZero(r) THEN 1 ELSE 0

\* line 123: (retorno_diario > 0).astype(int)
Subiu(r) == IF FGt(r, Num(0)) THEN 1 ELSE 0

\* lines 111-127: the copy of the table with the four columns added
ComFeatures(df) ==
    LET close == df.close
        retorno_diario == Retorno(close)
    IN  [colunas |-> df.colunas \cup {"media_movel_7d", "volatilidade_7d",
                                      "retorno_diario", "preco_subiu"},
         close |-> close,
         media_movel_7d |-> MediaMovel(close, JanelaDias),
         volatilidade_7d |-> Volatilidade(close, JanelaDias),
         retorno_diario |-> retorno_diario,
         preco_subiu |-> [i \in 1..Len(close) |-> Subiu(retorno_diario[i])]]

\* a table without the feature columns
SemFeatures(colunas, close) ==
    [colunas |-> colunas, close |-> close, media_movel_7d |-> <<>>,
     volatilidade_7d |-> <<>>, retorno_diario |-> <<>>, preco_subiu |-> <<>>]

\* lines 98-127: criar_features_basicas_completas.  The columns are added to
\* df_resultado, a copy (line 111); the table given is not assigned to
CriarFeatures ==
    /\ pc = "feat_inicio"
    /\ df_resultado' = ComFeatures(dataframe_crypto)
    /\ pc' = "feat_retornou"
    /\ UNCHANGED <<lucroVars, cvVars, foldVars, grauVars, mainVars, todosVars,
                   dataframe_crypto, excecao>>

\* criar_features_basicas_completas is not called
InitSemFeat ==
    /\ dataframe_crypto = SemFeatures({}, <<>>)
    /\ df_resultado = SemFeatures({}, <<>>)

(***************************************************************************)
(* comparar_todos_modelos (analise_lucro.py 107-141).  The dictionary is   *)
(* the sequence of its items in the order of insertion, the order in which *)
(* items() yields them.                                                    *)
(***************************************************************************)
MaxModelos == 3

\* line 119: melhor_correlacao = 0
MelhorCorrelacaoInicial == 0

\* the keys: those of main.py 198-210, and one more
NomesModelos == <<"MLP", "Linear", "Polinomial Grau 2", "Modelo 4">>

\* values of metricas['correlacao']: np.corrcoef gives a number in [-1, 1],
\* or nan for a constant series
CorrelacaoVals == {Num(-1), Rat(-1, 2), Num(0), Rat(1, 2), Num(1), NaN}

\* values of metricas['erro_padrao']: np.std is never negative
ErroPadraoVals == {Num(0), Num(1), Num(2)}

\* one item of the dictionary
Item(nome, correlacao, erro) ==
    [nome_modelo |-> nome, correlacao |-> correlacao, erro_padrao |-> erro]

\* line 132: correlacao > melhor_correlacao
CorrelacaoMelhora(correlacao, melhor) == FGt(correlacao, melhor)

\* line 136: erro < menor_erro
ErroMelhora(erro, menor) == FGt(menor, erro)

\* lines 126-138: one iteration of the loop over the items
ComparaModelo ==
    /\ pc = "todos_loop"
    /\ itens_vistos < Len(resultados_modelos)
    /\ LET item == resultados_modelos[itens_vistos + 1]
           nome_modelo == item.nome_modelo
           correlacao == item.correlacao
           erro == item.erro_padrao
       IN  /\ IF CorrelacaoMelhora(correlacao, melhor_correlacao)
              THEN /\ melhor_correlacao' = correlacao
                   /\ modelo_melhor_correlacao' = nome_modelo
              ELSE UNCHANGED <<melhor_correlacao, modelo_melhor_correlacao>>
           /\ IF ErroMelhora(erro, menor_erro)
              THEN /\ menor_erro' = erro
                   /\ modelo_menor_erro' = nome_modelo
              ELSE UNCHANGED <<menor_erro, modelo_menor_erro>>
    /\ itens_vistos' = itens_vistos + 1
    /\ UNCHANGED <<lucroVars, cvVars, foldVars, mainVars, featVars, pc, excecao,
                   resultados_modelos, impresso, cv_resultado, grau, melhor_grau,
                   melhor_modelo, melhor_transformador, tentativas, retorno_grau>>

\* lines 140-141: the two lines printed after the loop; the function returns
\* None
ComparaFim ==
    /\ pc = "todos_loop"
    /\ itens_vistos >= Len(resultados_modelos)
    /\ impresso' = [modelo_melhor_correlacao |-> modelo_melhor_correlacao,
                    melhor_correlacao |-> melhor_correlacao,
                    modelo_menor_erro |-> modelo_menor_erro,
                    menor_erro |-> menor_erro]
    /\ pc' = "todos_retornou"
    /\ UNCHANGED <<lucroVars, cvVars, foldVars, grauVars, mainVars, featVars, excecao,
                   resultados_modelos, itens_vistos, melhor_correlacao,
                   modelo_melhor_correlacao, modelo_menor_erro>>

\* nothing printed yet
NadaImpresso ==
    [modelo_melhor_correlacao |-> "", melhor_correlacao |-> Nenhum,
     modelo_menor_erro |-> "", menor_erro |-> Nenhum]

\* lines 119-124: the locals before the loop (menor_erro = float('inf') is
\* set with the locals of the degree search, which line 188 starts alike)
InicioDaComparacao ==
    /\ itens_vistos = 0
    /\ melhor_correlacao = Num(MelhorCorrelacaoInicial)
    /\ modelo_melhor_correlacao = ""
    /\ modelo_menor_erro = ""
    /\ impresso = NadaImpresso

\* comparar_todos_modelos is not called
InitSemTodos ==
    /\ resultados_modelos = <<>>
    /\ InicioDaComparacao

InitComum ==
    /\ tipo \in Tipos
    /\ dia = 0
    /\ dinheiro_atual = Nenhum
    /\ historico_dinheiro = <<>>
    /\ retorno = TuplaNone
    /\ excecao = ""
    /\ retorno1 = TuplaNone
    /\ resultados = [melhor_modelo |-> 0, diferenca_lucro |-> Nenhum]
    /\ lucro_buy_hold = Nenhum
    /\ numero_fold = 0
    /\ lista_erros = <<>>
    /\ modelos_fold = <<>>
    /\ previsoes_fold = <<>>
    /\ particoes_fold = <<>>
    /\ retorno_cv = [lista_erros |-> <<>>, erro_medio |-> Nenhum]

\* no cross-validation is called in this run
InitSemCV ==
    /\ dados_y = <<>>
    /\ numero_folds = 0
    /\ modelo_tipo = "linear"
    /\ embaralhado = <<>>

\* a direct call calcular_lucro_investimento(precos, previsoes, capital)
InitSim ==
    /\ modo = "simular"
    /\ precos_reais \in SeqsUpTo(PriceVals, MaxLen)
    /\ previsoes_modelo \in SeqsUpTo(PriceVals, MaxLen)
    /\ investimento_inicial \in Capitais
    /\ previsoes_modelo1 = <<>>
    /\ previsoes_modelo2 = <<>>
    /\ pc = "sim_inicio"
    /\ chamada = 0
    /\ InitSemCV
    /\ InitSemFold
    /\ InitSemGrau
    /\ InitSemMain
    /\ InitSemFeat
    /\ InitSemTodos
    /\ InitComum

NextSim == SimVerifica \/ SimDia \/ SimFim

SpecSim == InitSim /\ [][NextSim]_vars

\* values of the prices given to buy-and-hold (100 and 200: the documented
\* example)
BHPriceVals == {0, 1, 2, 100, 200}

\* a call calcular_estrategia_buy_and_hold(precos, capital)
InitBH ==
    /\ modo = "buy_and_hold"
    /\ precos_reais \in SeqsUpTo(BHPriceVals, MaxLen)
    /\ previsoes_modelo = <<>>
    /\ investimento_inicial \in Capitais
    /\ previsoes_modelo1 = <<>>
    /\ previsoes_modelo2 = <<>>
    /\ pc = "bh_inicio"
    /\ chamada = 0
    /\ InitSemCV
    /\ InitSemFold
    /\ InitSemGrau
    /\ InitSemMain
    /\ InitSemFeat
    /\ InitSemTodos
    /\ InitComum

NextBH == BuyAndHold

SpecBH == InitBH /\ [][NextBH]_vars

MaxLenCmp == 2

\* prices and predictions of the compared runs: positive, as a PriceSeries is
CmpPriceVals == {1, 2}

CmpPrevVals == {1, 2, 3}

\* a call comparar_lucro_entre_modelos(precos, previsoes1, previsoes2): the
\* simulator runs with its default capital
InitCmp ==
    /\ modo = "comparar"
    /\ precos_reais \in SeqsUpTo(CmpPriceVals, MaxLenCmp)
    /\ previsoes_modelo1 \in SeqsUpTo(CmpPrevVals, MaxLenCmp)
    /\ previsoes_modelo2 \in SeqsUpTo(CmpPrevVals, MaxLenCmp)
    /\ previsoes_modelo = previsoes_modelo1
    /\ investimento_inicial = InvestimentoDefault
    /\ pc = "sim_inicio"
    /\ chamada = 1
    /\ InitSemCV
    /\ InitSemFold
    /\ InitSemGrau
    /\ InitSemMain
    /\ InitSemFeat
    /\ InitSemTodos
    /\ InitComum

NextCmp ==
    \/ SimVerifica
    \/ SimDia
    \/ SimFim
    \/ CompararSegundaChamada
    \/ CompararDecide

SpecCmp == InitCmp /\ [][NextCmp]_vars

MaxAmostras == 3

TiposModelo == {"linear", "mlp", "poly", "outro"}

Permutacoes(n) == {f \in [1..n -> 1..n] : \A i, j \in 1..n : f[i] = f[j] => i = j}

\* a call validacao_cruzada_kfold(X, y, numero_folds, modelo_tipo); the
\* shuffle of the seeded generator is some permutation of the indices
InitCV ==
    /\ modo = "kfold"
    /\ \E n \in 0..MaxAmostras :
           /\ dados_y \in [1..n -> YVals]
           /\ embaralhado \in Permutacoes(n)
    /\ numero_folds \in 0..(MaxAmostras + 1)
    /\ modelo_tipo \in TiposModelo
    /\ precos_reais = <<>>
    /\ previsoes_modelo = <<>>
    /\ tipo = "ndarray"
    /\ investimento_inicial = InvestimentoDefault
    /\ previsoes_modelo1 = <<>>
    /\ previsoes_modelo2 = <<>>
    /\ chamada = 0
    /\ pc = "cv_inicio"
    /\ InitSemFold
    /\ InitSemGrau
    /\ InitSemMain
    /\ InitSemFeat
    /\ InitSemTodos
    /\ InitComum

NextCV == KFoldCria \/ KFoldSplit \/ KFoldFold \/ KFoldFim

SpecCV == InitCV /\ [][NextCV]_vars

\* one fold of validacao_cruzada_kfold: a training partition of 1..MaxTreino
\* rows and a held-out partition of 1..MaxTeste rows
InitFold ==
    /\ modo = "fold"
    /\ \E a \in 1..MaxTreino : X_treino \in [1..a -> XVals]
    /\ \E b \in 1..MaxTeste : X_teste \in [1..b -> XVals]
    /\ modelo_tipo \in TiposModelo
    /\ escalador = [media |-> Nenhum, escala |-> Nenhum]
    /\ X_treino_escalado = <<>>
    /\ X_teste_escalado = <<>>
    /\ cond_number = CondNenhum
    /\ modelo = ""
    /\ dados_y = <<>>
    /\ numero_folds = 0
    /\ embaralhado = <<>>
    /\ precos_reais = <<>>
    /\ previsoes_modelo = <<>>
    /\ tipo = "ndarray"
    /\ investimento_inicial = InvestimentoDefault
    /\ previsoes_modelo1 = <<>>
    /\ previsoes_modelo2 = <<>>
    /\ chamada = 0
    /\ pc = "fold_inicio"
    /\ InitSemGrau
    /\ InitSemMain
    /\ InitSemFeat
    /\ InitSemTodos
    /\ InitComum

NextFold == EscalaFold \/ EscolheModelo

SpecFold == InitFold /\ [][NextFold]_vars

\* a call encontrar_melhor_grau_polinomial(dados_X, dados_y)
InitGrau ==
    /\ modo = "grau"
    /\ cv_resultado \in ResultadosCV
    /\ InicioDaBusca
    /\ dados_y = <<>>
    /\ numero_folds = 0
    /\ modelo_tipo = "poly"
    /\ embaralhado = <<>>
    /\ precos_reais = <<>>
    /\ previsoes_modelo = <<>>
    /\ tipo = "ndarray"
    /\ investimento_inicial = InvestimentoDefault
    /\ previsoes_modelo1 = <<>>
    /\ previsoes_modelo2 = <<>>
    /\ chamada = 0
    /\ pc = "grau_loop"
    /\ InitSemFold
    /\ InitSemMain
    /\ InitSemFeat
    /\ InitSemTodos
    /\ InitComum

NextGrau == TentaGrau \/ GrauFim

SpecGrau == InitGrau /\ [][NextGrau]_vars

\* the core operations together: a run calls one of them
InitNucleo == InitSim \/ InitCV \/ InitFold \/ InitGrau

NextNucleo == NextSim \/ NextCV \/ NextFold \/ NextGrau

SpecNucleo == InitNucleo /\ [][NextNucleo]_vars

\* prices and predictions of an evaluation: a prediction of 4 is above every
\* price, one of 0 above none
AvalPriceVals == {0, 1, 2, 3}

AvalPrevVals == {0, 4}

\* the simulator and buy-and-hold called one after the other on the same
\* prices and capital, with as many predictions as prices
InitAval ==
    /\ modo = "avaliar"
    /\ precos_reais \in SeqsUpTo(AvalPriceVals, MaxLen)
    /\ previsoes_modelo \in [1..Len(precos_reais) -> AvalPrevVals]
    /\ investimento_inicial \in Capitais
    /\ previsoes_modelo1 = <<>>
    /\ previsoes_modelo2 = <<>>
    /\ pc = "sim_inicio"
    /\ chamada = 0
    /\ InitSemCV
    /\ InitSemFold
    /\ InitSemGrau
    /\ InitSemMain
    /\ InitSemFeat
    /\ InitSemTodos
    /\ InitComum

NextAval == SimVerifica \/ SimDia \/ SimFim \/ SegueParaBuyAndHold \/ BuyAndHold

SpecAval == InitAval /\ [][NextAval]_vars

\* a call comparar_todos_modelos(resultados_modelos) with up to MaxModelos
\* items
InitTodos ==
    /\ modo = "comparar_todos"
    /\ \E n \in 0..MaxModelos :
           resultados_modelos \in
               {[i \in 1..n |-> Item(NomesModelos[i], c[i], e[i])] :
                   c \in [1..n -> CorrelacaoVals], e \in [1..n -> ErroPadraoVals]}
    /\ InicioDaComparacao
    /\ precos_reais = <<>>
    /\ previsoes_modelo = <<>>
    /\ tipo = "ndarray"
    /\ investimento_inicial = InvestimentoDefault
    /\ previsoes_modelo1 = <<>>
    /\ previsoes_modelo2 = <<>>
    /\ chamada = 0
    /\ pc = "todos_loop"
    /\ InitSemCV
    /\ InitSemFold
    /\ InitSemGrau
    /\ InitSemMain
    /\ InitSemFeat
    /\ InitComum

NextTodos == ComparaModelo \/ ComparaFim

SpecTodos == InitTodos /\ [][NextTodos]_vars

\* a call criar_features_basicas_completas(dataframe_crypto) on a table of
\* up to MaxLinhasDf rows
InitFeat ==
    /\ modo = "features"
    /\ \E close \in SeqsUpTo({Num(v) : v \in CloseVals}, MaxLinhasDf) :
           dataframe_crypto = SemFeatures(ColunasDeEntrada, close)
    /\ df_resultado = SemFeatures({}, <<>>)
    /\ precos_reais = <<>>
    /\ previsoes_modelo = <<>>
    /\ tipo = "ndarray"
    /\ investimento_inicial = InvestimentoDefault
    /\ previsoes_modelo1 = <<>>
    /\ previsoes_modelo2 = <<>>
    /\ chamada = 0
    /\ pc = "feat_inicio"
    /\ InitSemCV
    /\ InitSemFold
    /\ InitSemGrau
    /\ InitSemMain
    /\ InitSemTodos
    /\ InitComum

NextFeat == CriarFeatures

SpecFeat == InitFeat /\ [][NextFeat]_vars

\* a run of main
InitMain ==
    /\ modo = "main"
    /\ args_model \in ModelosCLI
    /\ args_kfolds \in KfoldsVals
    /\ InicioDoMain
    /\ dados_y = <<>>
    /\ numero_folds = 0
    /\ modelo_tipo = ""
    /\ embaralhado = <<>>
    /\ precos_reais = <<>>
    /\ previsoes_modelo = <<>>
    /\ tipo = "ndarray"
    /\ investimento_inicial = InvestimentoDefault
    /\ previsoes_modelo1 = <<>>
    /\ previsoes_modelo2 = <<>>
    /\ chamada = 0
    /\ pc = "main_loop"
    /\ InitSemFold
    /\ InitSemGrau
    /\ InitSemFeat
    /\ InitSemTodos
    /\ InitComum

NextMain == ProcessaAtivo \/ MainResumo

SpecMain == InitMain /\ [][NextMain]_vars

\* the interpreter runs the loop to its end: a step that can be taken is taken
SpecMainJusto == SpecMain /\ WF_vars(NextMain)

(***************************************************************************)
(* Properties of calcular_lucro_investimento, checked under SpecSim.       *)
(***************************************************************************)
SimChamado == pc \in {"sim_loop", "sim_retornou", "excecao"}

SimRetornou == pc = "sim_retornou" /\ ~retorno.nulo

Ultimo(s) == s[Len(s)]

\* the sizes agree and the predictions never exceed the price of the day before
PrevisoesNuncaSobem ==
    /\ Len(precos_reais) = Len(previsoes_modelo)
    /\ \A t \in 1..(Len(precos_reais) - 1) :
           previsoes_modelo[t + 1] <= precos_reais[t]

\* C1: for every simulated day t with a positive price, the capital after
\* day t is capital_before * prices[t+1] / prices[t] when
\* predictions[t+1] > prices[t] strictly, and capital_before otherwise; only
\* predictions[t+1] and prices[t] decide.
C1_RegraDeDecisao ==
    SimChamado =>
        \A t \in 1..(Len(historico_dinheiro) - 1) :
            LET antes == historico_dinheiro[t]
                depois == historico_dinheiro[t + 1]
            IN  IF previsoes_modelo[t + 1] > precos_reais[t]
                THEN precos_reais[t] > 0 =>
                        depois = FDiv(FMul(antes, Num(precos_reais[t + 1])),
                                      Num(precos_reais[t]))
                ELSE depois = antes

\* C1 witness: a returned two-day run that invested with a gain on the first
\* day and held on the second
C1_Witness ==
    /\ SimRetornou
    /\ Len(retorno.historico) = 3
    /\ previsoes_modelo[2] > precos_reais[1]
    /\ precos_reais[2] > precos_reais[1]
    /\ precos_reais[1] > 0
    /\ previsoes_modelo[3] <= precos_reais[2]
    /\ precos_reais[3] # precos_reais[2]
    /\ retorno.historico[2] # retorno.historico[1]
    /\ retorno.historico[3] = retorno.historico[2]

\* C2: for inputs of equal length n >= 2 the returned trajectory has exactly
\* n entries and starts with the initial capital; inside the loop one entry
\* has been appended per simulated day; the call raises only on a zero price.
C2_Trajetoria ==
    /\ pc = "sim_loop" =>
           /\ Len(historico_dinheiro) = dia + 1
           /\ historico_dinheiro[1] = Num(investimento_inicial)
    /\ (pc = "sim_retornou" /\ Len(precos_reais) = Len(previsoes_modelo)
           /\ Len(precos_reais) >= 2) =>
           /\ ~retorno.nulo
           /\ Len(retorno.historico) = Len(precos_reais)
           /\ retorno.historico[1] = Num(investimento_inicial)
    /\ (modo = "simular" /\ pc = "excecao") =>
           \E t \in DOMAIN precos_reais : precos_reais[t] = 0

\* C2 witness: a returned run over three prices
C2_Witness ==
    /\ SimRetornou
    /\ Len(precos_reais) = 3
    /\ Len(previsoes_modelo) = 3
    /\ Len(retorno.historico) = 3
    /\ dia = 2

\* C3 (as claimed): with sizes that differ the call ends in a LengthMismatch
\* error surfaced to the caller, and no simulation step is executed.
C3_TamanhosDiferentesFalha ==
    (modo = "simular" /\ pc # "sim_inicio"
        /\ Len(precos_reais) # Len(previsoes_modelo)) =>
        /\ pc = "excecao"
        /\ excecao = "LengthMismatch"
        /\ historico_dinheiro = <<>>

\* C4: with equal sizes below 2 no decision is made; the call returns the
\* trajectory <<initial capital>> and the profit 0 and does not raise.
C4_SerieCurta ==
    (modo = "simular" /\ pc # "sim_inicio"
        /\ Len(precos_reais) = Len(previsoes_modelo) /\ Len(precos_reais) < 2) =>
        /\ pc \in {"sim_loop", "sim_retornou"}
        /\ excecao = ""
        /\ dia = 0
        /\ pc = "sim_retornou" =>
               retorno = Tupla(Num(investimento_inicial), Num(0),
                               <<Num(investimento_inicial)>>, FALSE)

\* C4 witness: the call on two empty sequences has returned
C4_Witness ==
    /\ modo = "simular"
    /\ pc = "sim_retornou"
    /\ precos_reais = <<>>
    /\ previsoes_modelo = <<>>
    /\ retorno.historico = <<Num(investimento_inicial)>>

\* C5: if predictions[t+1] <= prices[t] for every t, every trajectory entry
\* is the initial capital, the call does not raise and the profit is 0.
C5_NuncaInveste ==
    (modo = "simular" /\ PrevisoesNuncaSobem) =>
        /\ \A i \in DOMAIN historico_dinheiro :
               historico_dinheiro[i] = Num(investimento_inicial)
        /\ pc # "excecao"
        /\ pc = "sim_retornou" =>
               /\ Ultimo(retorno.historico) = Num(investimento_inicial)
               /\ retorno.dinheiro_final = Num(investimento_inicial)
               /\ retorno.lucro_total = Num(0)

\* C5 witness: a returned three-price run with moving prices and predictions
\* that never exceed the price of the day before, one of them equal to it
C5_Witness ==
    /\ modo = "simular"
    /\ pc = "sim_retornou"
    /\ PrevisoesNuncaSobem
    /\ Len(precos_reais) = 3
    /\ precos_reais[1] # precos_reais[2]
    /\ precos_reais[2] # precos_reais[3]
    /\ previsoes_modelo[2] = precos_reais[1]
    /\ Len(retorno.historico) = 3

\* C6: on every successful return the final capital is the last trajectory
\* entry and the profit is that entry minus the initial capital.
C6_LucroFinal ==
    SimRetornou =>
        /\ retorno.dinheiro_final = Ultimo(retorno.historico)
        /\ retorno.lucro_total =
               FSub(Ultimo(retorno.historico), Num(investimento_inicial))

\* C6 witness: a return with a profit that is neither zero nor the final money
C6_Witness ==
    /\ SimRetornou
    /\ Len(retorno.historico) >= 2
    /\ IsFinite(retorno.lucro_total)
    /\ retorno.lucro_total.n # 0
    /\ retorno.lucro_total # retorno.dinheiro_final

(***************************************************************************)
(* Properties of calcular_estrategia_buy_and_hold, checked under SpecBH.   *)
(***************************************************************************)
\* C7: for a non-empty sequence with prices[0] # 0 buy-and-hold returns
\* initial * prices[-1] / prices[0] - initial, which is also its result on
\* the two-element sequence <<first, last>>; <<100, 200>> with the default
\* capital gives 1000.
C7_BuyAndHold ==
    (modo = "buy_and_hold" /\ pc # "bh_inicio" /\ precos_reais # <<>>
        /\ precos_reais[1] # 0) =>
        LET inicial == Num(investimento_inicial)
            primeiro == Num(precos_reais[1])
            ultimo == Num(Ultimo(precos_reais))
        IN  /\ pc = "bh_retornou"
            /\ lucro_buy_hold =
                   FSub(FDiv(FMul(inicial, ultimo), primeiro), inicial)
            /\ (precos_reais = <<100, 200>>
                   /\ investimento_inicial = InvestimentoDefault) =>
                   lucro_buy_hold = Num(1000)

\* C7 witness: three prices, from 100 to 200 through another one, with the
\* default capital, return 1000
C7_Witness ==
    /\ pc = "bh_retornou"
    /\ Len(precos_reais) = 3
    /\ precos_reais[1] = 100
    /\ precos_reais[2] \notin {100, 200}
    /\ precos_reais[3] = 200
    /\ investimento_inicial = InvestimentoDefault
    /\ lucro_buy_hold = Num(1000)

\* C8 (as claimed): with prices[0] = 0 the call fails with a division-by-zero
\* error, whatever the container, and returns no value.
C8_PrecoZeroFalha ==
    (modo = "buy_and_hold" /\ pc # "bh_inicio" /\ precos_reais # <<>>
        /\ precos_reais[1] = 0) =>
        /\ pc = "excecao"
        /\ excecao = "ZeroDivisionError"
        /\ lucro_buy_hold = Nenhum

(***************************************************************************)
(* Properties of comparar_lucro_entre_modelos, checked under SpecCmp.      *)
(***************************************************************************)
\* C9: model 1 is the winner only when lucro1 > lucro2 strictly, model 2
\* wins a tie, and the margin is the winner's profit minus the loser's,
\* never negative and 0 on a tie.
C9_Vencedor ==
    pc = "cmp_retornou" =>
        LET lucro1 == retorno1.lucro_total
            lucro2 == retorno.lucro_total
            vencedor == resultados.melhor_modelo
            margem == resultados.diferenca_lucro
        IN  /\ vencedor \in {1, 2}
            /\ vencedor = 1 <=> FGt(lucro1, lucro2)
            /\ lucro1 = lucro2 => (vencedor = 2 /\ margem = Num(0))
            /\ margem = IF vencedor = 1 THEN FSub(lucro1, lucro2)
                                        ELSE FSub(lucro2, lucro1)
            /\ ~FGt(Num(0), margem)

\* C9 witness: two runs with equal non-zero profits, reported for model 2
C9_Witness ==
    /\ pc = "cmp_retornou"
    /\ retorno1.lucro_total = retorno.lucro_total
    /\ retorno.lucro_total # Num(0)
    /\ previsoes_modelo1 # previsoes_modelo2
    /\ resultados.melhor_modelo = 2

CVValida == modo = "kfold" /\ 2 <= numero_folds /\ numero_folds <= Len(dados_y)

\* C11: the held-out sets of the folds partition the n indices (pairwise
\* disjoint, and after the last fold every index is in one of them), each has
\* floor(n/k) or ceil(n/k) indices, the training and held-out indices of a
\* fold are disjoint and cover all indices, and the partition is a function
\* of n, k and the seeded shuffle alone.
C11_Particao ==
    CVValida =>
        LET n == Len(dados_y)
            k == numero_folds
            piso == n \div k
            teto == IF n % k = 0 THEN piso ELSE piso + 1
        IN  /\ Len(particoes_fold) = numero_fold
            /\ \A i \in 1..Len(particoes_fold) :
                   LET p == particoes_fold[i]
                   IN  /\ p.teste = {embaralhado[j] :
                                       j \in (InicioFold(n, k, i) + 1)..InicioFold(n, k, i + 1)}
                       /\ Cardinality(p.teste) \in {piso, teto}
                       /\ p.treino \cap p.teste = {}
                       /\ p.treino \cup p.teste = 1..n
                       /\ \A j \in 1..Len(particoes_fold) :
                              j # i => particoes_fold[j].teste \cap p.teste = {}
            /\ pc = "cv_retornou" =>
                   /\ Len(particoes_fold) = k
                   /\ UNION {particoes_fold[i].teste : i \in 1..k} = 1..n

\* C11 witness: 2 folds over 3 samples, of sizes 2 and 1, shuffled out of order
C11_Witness ==
    /\ pc = "cv_retornou"
    /\ Len(dados_y) = 3
    /\ numero_folds = 2
    /\ Len(particoes_fold) = 2
    /\ Cardinality(particoes_fold[1].teste) = 2
    /\ Cardinality(particoes_fold[2].teste) = 1
    /\ particoes_fold[2].teste = {1}

\* C12: with more folds than samples the call ends in the library's
\* ValueError, raised before any fold is fitted, and returns nothing.
C12_FoldsDemais ==
    (modo = "kfold" /\ numero_folds > Len(dados_y)
        /\ pc \notin {"cv_inicio", "cv_split"}) =>
        /\ pc = "excecao"
        /\ excecao = "ValueError"
        /\ numero_fold = 0
        /\ lista_erros = <<>>
        /\ particoes_fold = <<>>
        /\ retorno_cv.lista_erros = <<>>
        /\ retorno_cv.erro_medio = Nenhum

\* C12 witness: 3 folds asked of 2 samples, rejected by kfold.split
C12_Witness ==
    /\ modo = "kfold"
    /\ pc = "excecao"
    /\ numero_folds = 3
    /\ Len(dados_y) = 2
    /\ lista_erros = <<>>

\* C13 (fold level): in every fold the scaler, and in poly mode the
\* polynomial transform, is fitted on the training rows of that fold only and
\* applied to both partitions; no held-out row is among the rows it is fitted
\* on; every fold has a scaler and a model of its own.
C13_AjusteSoNoTreino ==
    CVValida =>
        /\ Len(modelos_fold) = numero_fold
        /\ Len(particoes_fold) = numero_fold
        /\ \A i \in 1..Len(particoes_fold) :
               LET p == particoes_fold[i]
                   n == Len(dados_y)
               IN  /\ p.teste = IndicesTeste(embaralhado, n, numero_folds, i)
                   /\ p.escalador_ajustado_em = (1..n) \ p.teste
                   /\ p.escalador_ajustado_em \cap p.teste = {}
                   /\ p.teste \subseteq p.escalador_aplicado_a
                   /\ IF modelo_tipo = "poly"
                      THEN /\ p.poly_ajustado_em = (1..n) \ p.teste
                           /\ p.teste \subseteq p.poly_aplicado_a
                      ELSE p.poly_ajustado_em = {}

\* C13 witness: a returned poly run of 3 folds over 3 samples
C13_Witness ==
    /\ pc = "cv_retornou"
    /\ modelo_tipo = "poly"
    /\ numero_folds = 3
    /\ Len(dados_y) = 3
    /\ Len(particoes_fold) = 3
    /\ particoes_fold[2].poly_ajustado_em # particoes_fold[1].poly_ajustado_em

Limitado(coluna) ==
    \A i \in 1..Len(coluna) :
        /\ IsFinite(coluna[i])
        /\ ~FGt(coluna[i], Num(LimiteClip))
        /\ ~FGt(Num(-LimiteClip), coluna[i])

\* C14: the scaling guard never raises, and its output, for the training and
\* the held-out rows, has the shape of its input and holds only finite
\* values between -50 and 50.
C14_GuardaNuncaFalha ==
    (modo = "fold" /\ pc # "fold_inicio") =>
        /\ pc # "excecao"
        /\ Len(X_treino_escalado) = Len(X_treino)
        /\ Len(X_teste_escalado) = Len(X_teste)
        /\ Limitado(X_treino_escalado)
        /\ Limitado(X_teste_escalado)

\* C14, the part that holds: when the scaler accepts the input (no infinite
\* entry), the guarded output is finite and within the limits, a NaN entry
\* comes out as 0, and a column constant over the training rows as zeros.
C14_SaidaLimitada ==
    (modo = "fold" /\ pc \in {"fold_escalado", "fold_modelo"}) =>
        /\ Len(X_treino_escalado) = Len(X_treino)
        /\ Len(X_teste_escalado) = Len(X_teste)
        /\ Limitado(X_treino_escalado)
        /\ Limitado(X_teste_escalado)
        /\ \A i \in 1..Len(X_teste) :
               X_teste[i].t = "nan" => X_teste_escalado[i] = Num(0)
        /\ (\A i \in 1..Len(X_treino) : X_treino[i] = X_treino[1]) =>
               \A i \in 1..Len(X_treino) : X_treino_escalado[i] = Num(0)

\* a held-out value far from the training rows is clipped to the limit
C14_Clipado ==
    /\ modo = "fold"
    /\ pc = "fold_escalado"
    /\ X_treino = <<Num(0), Num(1)>>
    /\ X_teste = <<Num(100)>>
    /\ X_teste_escalado = <<Num(LimiteClip)>>

\* C15: in linear mode the fold's model is the ridge regression exactly when
\* the condition number exceeds 1e12 or its computation raised, and the
\* ordinary least squares otherwise; the outcome of the condition number
\* never ends the fold in an error.
C15_RidgeQuandoMalCondicionado ==
    (modo = "fold" /\ modelo_tipo = "linear" /\ pc \notin {"fold_inicio", "excecao"}) =>
        /\ pc = "fold_escalado" => (modelo = "" /\ cond_number = CondNenhum)
        /\ pc = "fold_modelo" =>
               LET excede == \/ cond_number.t = "inf"
                             \/ /\ cond_number.t = "fin"
                                /\ \/ cond_number.e > ExpoenteLimite
                                   \/ cond_number.e = ExpoenteLimite /\ cond_number.m > 1
               IN  /\ cond_number \in CondVals
                   /\ modelo = IF excede \/ cond_number.t = "excecao"
                               THEN "Ridge" ELSE "LinearRegression"
                   /\ excecao = ""

\* C15 witness: a condition number of exactly 1e12 keeps the least squares
C15_Witness ==
    /\ modo = "fold"
    /\ pc = "fold_modelo"
    /\ modelo_tipo = "linear"
    /\ cond_number = Cond(1, ExpoenteLimite)
    /\ modelo = "LinearRegression"

\* a failed condition number computation gives the ridge regression
C15_WitnessFalha ==
    /\ modo = "fold"
    /\ pc = "fold_modelo"
    /\ cond_number = CondFalhou
    /\ modelo = "Ridge"

\* the degrees whose trial succeeded so far
GrausComSucesso == {tentativas[i].grau : i \in {j \in 1..Len(tentativas) : tentativas[j].excecao = ""}}

ErroDoGrau(g) ==
    LET i == CHOOSE i \in 1..Len(tentativas) : tentativas[i].grau = g
    IN  tentativas[i].erro_medio

\* C16: the degrees are tried in ascending order from 2 to 10; once a trial
\* has succeeded the best degree is one that succeeded, no degree that
\* succeeded has a smaller error, every degree that succeeded with the same
\* error is higher, and the best error is the error of that degree's trial;
\* the returned degree and error are those.
C16_MelhorGrau ==
    modo = "grau" =>
        /\ \A i \in 1..Len(tentativas) : tentativas[i].grau = GrauMin + i - 1
        /\ grau = GrauMin + Len(tentativas)
        /\ GrausComSucesso # {} =>
               /\ melhor_grau \in GrausComSucesso
               /\ menor_erro = ErroDoGrau(melhor_grau)
               /\ \A g \in GrausComSucesso :
                      /\ ~FGt(menor_erro, ErroDoGrau(g))
                      /\ ErroDoGrau(g) = menor_erro => g >= melhor_grau
        /\ pc = "grau_retornou" =>
               /\ Len(tentativas) = GrauMax - GrauMin + 1
               /\ retorno_grau.melhor_grau = melhor_grau
               /\ retorno_grau.menor_erro = menor_erro

\* C16 witness: the trials of degrees 2 and 3 failed, those of 4 and of higher
\* degrees succeeded, and degree 4 is returned
C16_Witness ==
    /\ modo = "grau"
    /\ pc = "grau_retornou"
    /\ GrausComSucesso = 4..GrauMax
    /\ retorno_grau.melhor_grau = 4
    /\ retorno_grau.menor_erro = Num(3)

\* C17: the error that ranks a candidate degree d comes from a 3-fold
\* cross-validation of a polynomial model of degree d.
C17_ErroDoGrauAvaliado ==
    modo = "grau" =>
        \A i \in 1..Len(tentativas) :
            tentativas[i].cv # SemChamadaCV =>
                /\ tentativas[i].cv.numero_folds = FoldsDaBusca
                /\ tentativas[i].cv.modelo_tipo = "poly"
                /\ tentativas[i].cv.grau_poly = tentativas[i].grau

\* C18: a trial that raises is skipped: the best degree, error, model and
\* transform stay as they were and the loop goes on to the next degree; no
\* exception leaves the search, which returns the best of the degrees that
\* succeeded.
C18_FalhaIgnorada ==
    /\ [](modo = "grau" => pc # "excecao" /\ excecao = "")
    /\ [][(modo = "grau" /\ Len(tentativas') = Len(tentativas) + 1
             /\ tentativas'[Len(tentativas')].excecao # "")
           => /\ UNCHANGED <<melhor_grau, menor_erro, melhor_modelo,
                             melhor_transformador>>
              /\ grau' = grau + 1
              /\ pc' = "grau_loop"]_vars
    /\ [](modo = "grau" /\ pc = "grau_retornou" /\ GrausComSucesso # {}
             => retorno_grau.melhor_grau \in GrausComSucesso)

\* C18 witness: degree 2 succeeded, every later trial raised, and the search
\* returned degree 2
C18_Witness ==
    /\ modo = "grau"
    /\ pc = "grau_retornou"
    /\ GrausComSucesso = {GrauMin}
    /\ tentativas[Len(tentativas)].excecao = "MemoryError"
    /\ retorno_grau.melhor_grau = GrauMin
    /\ retorno_grau.melhor_modelo # SemObjeto

\* C19: the best model and transform are the pair fitted on all of dados_X at
\* the best degree, and the four locals change together: either all four
\* have their initial values, or all four come from the trial of the best
\* degree; the returned tuple carries them.
C19_ParDoMelhorGrau ==
    modo = "grau" =>
        /\ IF GrausComSucesso = {}
           THEN /\ melhor_grau = MelhorGrauInicial
                /\ menor_erro = PInf
                /\ melhor_modelo = SemObjeto
                /\ melhor_transformador = SemObjeto
           ELSE /\ melhor_grau \in GrausComSucesso
                /\ menor_erro = ErroDoGrau(melhor_grau)
                /\ melhor_modelo = [classe |-> "LinearRegression",
                                    grau |-> melhor_grau, ajustado_em |-> "dados_X"]
                /\ melhor_transformador = [classe |-> "PolynomialFeatures",
                                           grau |-> melhor_grau, ajustado_em |-> "dados_X"]
        /\ pc = "grau_retornou" =>
               retorno_grau = [melhor_grau |-> melhor_grau, menor_erro |-> menor_erro,
                               melhor_modelo |-> melhor_modelo,
                               melhor_transformador |-> melhor_transformador]

\* C19 witness: degree 2 failed and the returned pair is the one of degree 3
C19_Witness ==
    /\ modo = "grau"
    /\ pc = "grau_retornou"
    /\ 2 \notin GrausComSucesso
    /\ retorno_grau.melhor_grau = 3
    /\ retorno_grau.melhor_modelo.grau = 3
    /\ retorno_grau.melhor_transformador.grau = 3

\* C20: an error in the pipeline of an asset ends that pipeline only: no
\* exception leaves the loop, the assets are started one after the other in
\* the order of the list whatever happened to the earlier ones, a failed
\* pipeline adds nothing to the profit lists and is followed by the next
\* asset, and every run reaches the summary stage, with all the assets tried.
C20_TodosOsAtivos ==
    /\ [](modo = "main" =>
            /\ pc # "excecao"
            /\ excecao = ""
            /\ tentados = SubSeq(Cryptos, 1, ativo - 1)
            /\ pc = "main_resumo" => tentados = Cryptos)
    /\ [][(modo = "main" /\ numero_falhas' > numero_falhas)
           => /\ ativo' = ativo + 1
              /\ pc' = "main_loop"
              /\ UNCHANGED <<all_profits_model, all_profits_buyhold>>]_vars
    /\ (modo = "main" => <>(pc = "main_resumo"))

\* C20 witness: the summary stage is reached after a run in which every
\* pipeline but the last one failed
C20_Witness ==
    /\ modo = "main"
    /\ pc = "main_resumo"
    /\ numero_falhas = Len(Cryptos) - 1
    /\ ultimo_resultado = "ok"
    /\ Len(all_profits_model) = 1
    /\ tentados = Cryptos

\* C21: the cross-validation main runs for an asset is called with the model
\* family named by --model and with k = --kfolds.
C21_ArgumentosDaValidacao ==
    (modo = "main" /\ ultimo_resultado = "ok") =>
        /\ numero_folds = args_kfolds
        /\ modelo_tipo = args_model

\* C21, the part that holds: the fold count of the call is --kfolds; the
\* model family is always the default one
C21_SoOsFolds ==
    (modo = "main" /\ ultimo_resultado = "ok") =>
        /\ numero_folds = args_kfolds
        /\ modelo_tipo = ModeloTipoDefault

\* C25: treinar_modelo_escolhido returns a model for linear, mlp and poly and
\* raises only for another type, so that with --model poly an asset whose
\* other stages succeed ends with its profit recorded.
C25_TreinoDosTresModelos ==
    (modo = "main" /\ args_model \in ModelosCLI) => ultimo_resultado # "NameError"

\* with --model poly no pipeline is ever completed
C25_PolyNuncaConclui ==
    (modo = "main" /\ args_model = "poly") =>
        /\ all_profits_model = <<>>
        /\ ultimo_resultado # "ok"

\* C29: the two profit lists have the same length at every point of the loop;
\* a pipeline that completes adds one entry to each and every other one (a
\* skip for too few rows, a failure at any stage, a profit of None) adds
\* nothing to either, so that the length never exceeds the number of assets
\* that neither failed nor were skipped.
C29_ListasDeLucro ==
    /\ [](modo = "main" =>
            /\ Len(all_profits_model) = Len(all_profits_buyhold)
            /\ Len(all_profits_model) <= Len(tentados) - numero_falhas
            /\ \A i \in 1..Len(all_profits_model) : all_profits_model[i] # "None")
    /\ [][(modo = "main" /\ ativo' = ativo + 1) =>
             IF ultimo_resultado' = "ok"
             THEN /\ Len(all_profits_model') = Len(all_profits_model) + 1
                  /\ Len(all_profits_buyhold') = Len(all_profits_buyhold) + 1
                  /\ numero_falhas' = numero_falhas
             ELSE /\ UNCHANGED <<all_profits_model, all_profits_buyhold>>
                  /\ ultimo_resultado' = "poucos_dados" => numero_falhas' = numero_falhas
                  /\ ultimo_resultado' # "poucos_dados" => numero_falhas' = numero_falhas + 1]_vars

\* C29 witness: after the last asset, two pipelines completed, one was
\* skipped, one ended in the TypeError of a None profit
C29_Witness ==
    /\ modo = "main"
    /\ pc = "main_resumo"
    /\ Len(all_profits_model) = 2
    /\ Len(all_profits_buyhold) = 2
    /\ numero_falhas = Len(Cryptos) - 3
    /\ ultimo_resultado = "TypeError"

C23_EntradasIntactas ==
    [][UNCHANGED <<precos_reais, previsoes_modelo, investimento_inicial,
                   dados_y, numero_folds, modelo_tipo, X_treino, X_teste,
                   cv_resultado>>]_vars

\* C23 witness: a fold was scaled and clipped and its input rows are not the
\* scaled ones
C23_Witness ==
    /\ modo = "fold"
    /\ pc = "fold_modelo"
    /\ X_teste = <<Num(100)>>
    /\ X_teste_escalado = <<Num(LimiteClip)>>
    /\ X_treino = <<Num(0), Num(1)>>
    /\ X_treino_escalado # X_treino

\* C24: the table returned has as many rows as the table given, the columns
\* of the table given and the four feature columns; every preco_subiu is 0 or
\* 1, and 1 exactly when the daily return of its row is greater than 0 (so 0
\* in the first row, whose return is NaN); the table given is not changed.
C24_Features ==
    /\ [](modo = "features" /\ pc = "feat_retornou" =>
            LET n == Len(dataframe_crypto.close)
            IN  /\ df_resultado.colunas =
                      dataframe_crypto.colunas \cup {"media_movel_7d", "volatilidade_7d",
                                                     "retorno_diario", "preco_subiu"}
                /\ df_resultado.close = dataframe_crypto.close
                /\ Len(df_resultado.media_movel_7d) = n
                /\ Len(df_resultado.volatilidade_7d) = n
                /\ Len(df_resultado.retorno_diario) = n
                /\ Len(df_resultado.preco_subiu) = n
                /\ \A i \in 1..n :
                       /\ df_resultado.preco_subiu[i] \in {0, 1}
                       /\ df_resultado.preco_subiu[i] = 1 <=>
                              (/\ df_resultado.retorno_diario[i].t \in {"fin", "pinf"}
                               /\ Sign(df_resultado.retorno_diario[i]) = 1)
                       /\ i = 1 => (/\ df_resultado.retorno_diario[i] = NaN
                                    /\ df_resultado.preco_subiu[i] = 0)
                       /\ (i > 1 /\ ~IsZero(dataframe_crypto.close[i - 1])) =>
                              (df_resultado.preco_subiu[i] = 1 <=>
                                  FGt(dataframe_crypto.close[i], dataframe_crypto.close[i - 1])))
    /\ [][dataframe_crypto' = dataframe_crypto]_vars

\* C24 witness: a table of 7 rows with a rise, a fall and an unchanged price,
\* and a full window in its last row
C24_Witness ==
    /\ modo = "features"
    /\ pc = "feat_retornou"
    /\ Len(dataframe_crypto.close) = JanelaDias
    /\ df_resultado.preco_subiu[2] = 1
    /\ df_resultado.preco_subiu[3] = 0
    /\ IsZero(df_resultado.retorno_diario[4])
    /\ IsFinite(df_resultado.media_movel_7d[JanelaDias])
    /\ ~IsZero(df_resultado.volatilidade_7d[JanelaDias])
    /\ df_resultado.media_movel_7d[JanelaDias - 1] = NaN
    /\ "date" \in df_resultado.colunas

\* the lowest of a non-empty set of degrees
MenorGrau(graus) == CHOOSE g \in graus : \A h \in graus : g <= h

\* C26: within one call the mean error of the cross-validation is the same
\* at every degree: the call made is the same, all the trials that succeeded
\* report the same error, and the best degree is the lowest degree whose
\* trial succeeded, 2 whenever the trial of degree 2 succeeded.
C26_ErroIgualEmTodosOsGraus ==
    modo = "grau" =>
        /\ \A i, j \in 1..Len(tentativas) :
               (tentativas[i].excecao = "" /\ tentativas[j].excecao = "") =>
                   /\ tentativas[i].erro_medio = tentativas[j].erro_medio
                   /\ tentativas[i].cv.grau_poly = tentativas[j].cv.grau_poly
                   /\ tentativas[i].cv.numero_folds = tentativas[j].cv.numero_folds
        /\ GrausComSucesso # {} =>
               /\ melhor_grau = MenorGrau(GrausComSucesso)
               /\ GrauMin \in GrausComSucesso => melhor_grau = GrauMin
               /\ melhor_modelo.grau = MenorGrau(GrausComSucesso)
        /\ (pc = "grau_retornou" /\ GrausComSucesso # {}) =>
               retorno_grau.melhor_grau = MenorGrau(GrausComSucesso)

\* C26 witness: degree 2 failed, degrees 3, 5 and 10 succeeded with the same
\* error, and degree 3 was returned
C26_Witness ==
    /\ modo = "grau"
    /\ pc = "grau_retornou"
    /\ {3, 5, GrauMax} \subseteq GrausComSucesso
    /\ GrauMin \notin GrausComSucesso
    /\ ErroDoGrau(3) = Rat(1, 2)
    /\ ErroDoGrau(GrauMax) = Rat(1, 2)
    /\ retorno_grau.melhor_grau = 3

\* C27: the search never ends with an exception; when every trial failed it
\* returns degree 2, error +inf, no model and no transform; the degree
\* returned is between 2 and 10 in every case; and a model is returned only
\* if a trial succeeded.
C27_TodasAsTentativasFalham ==
    modo = "grau" =>
        /\ pc # "excecao"
        /\ melhor_grau \in GrauMin..GrauMax
        /\ melhor_modelo # SemObjeto => GrausComSucesso # {}
        /\ melhor_transformador # SemObjeto => GrausComSucesso # {}
        /\ pc = "grau_retornou" =>
               /\ retorno_grau.melhor_grau \in GrauMin..GrauMax
               /\ retorno_grau.melhor_modelo # SemObjeto => GrausComSucesso # {}
               /\ retorno_grau.melhor_transformador # SemObjeto => GrausComSucesso # {}
               /\ GrausComSucesso = {} =>
                      retorno_grau = [melhor_grau |-> MelhorGrauInicial,
                                      menor_erro |-> PInf,
                                      melhor_modelo |-> SemObjeto,
                                      melhor_transformador |-> SemObjeto]

\* C27 witness: all nine trials failed, some in the fit and some in the
\* cross-validation, and the search returned
C27_Witness ==
    /\ modo = "grau"
    /\ pc = "grau_retornou"
    /\ GrausComSucesso = {}
    /\ Len(tentativas) = GrauMax - GrauMin + 1
    /\ tentativas[1].excecao = "MemoryError"
    /\ tentativas[1].cv = SemChamadaCV
    /\ tentativas[2].excecao = "ValueError"
    /\ tentativas[2].cv # SemChamadaCV
    /\ retorno_grau.melhor_grau = GrauMin
    /\ retorno_grau.menor_erro = PInf

\* the prediction of every day after the first is above the price of the day
\* before
PrevisoesSempreSobem ==
    /\ Len(precos_reais) = Len(previsoes_modelo)
    /\ \A t \in 1..(Len(precos_reais) - 1) :
           previsoes_modelo[t + 1] > precos_reais[t]

PrecosPositivos == \A t \in 1..Len(precos_reais) : precos_reais[t] > 0

ItensDeNome(nome) ==
    {i \in 1..Len(resultados_modelos) : resultados_modelos[i].nome_modelo = nome}

\* no correlation of the dictionary is nan
CorrelacoesSaoNumeros ==
    \A i \in 1..Len(resultados_modelos) : resultados_modelos[i].correlacao # NaN

\* C30 (as claimed): for a non-empty dictionary the model printed as the best
\* by correlation is a model of the dictionary and no model has a greater
\* correlation, and the model printed with the lowest error is the first
\* model of the dictionary with the least error; also when no correlation is
\* positive.
C30_MelhoresModelos ==
    (modo = "comparar_todos" /\ pc = "todos_retornou" /\ resultados_modelos # <<>>
        /\ CorrelacoesSaoNumeros) =>
        /\ \E i \in ItensDeNome(impresso.modelo_melhor_correlacao) :
               /\ impresso.melhor_correlacao = resultados_modelos[i].correlacao
               /\ \A j \in 1..Len(resultados_modelos) :
                      ~FGt(resultados_modelos[j].correlacao,
                           resultados_modelos[i].correlacao)
        /\ \E i \in ItensDeNome(impresso.modelo_menor_erro) :
               /\ impresso.menor_erro = resultados_modelos[i].erro_padrao
               /\ \A j \in 1..Len(resultados_modelos) :
                      /\ ~FGt(resultados_modelos[i].erro_padrao,
                              resultados_modelos[j].erro_padrao)
                      /\ j < i => FGt(resultados_modelos[j].erro_padrao,
                                      resultados_modelos[i].erro_padrao)

=============================================================================
